---- MODULE Spec2Model ----
(***************************************************************************)
(* Moodify: the emotion-detection endpoint (provider chain), the           *)
(* recommendations endpoint (aggregator), the music-catalog token handling *)
(* the camera component of the page and the emotion-analytics endpoint, as *)
(* state machines translated from the TypeScript sources.                  *)
(*                                                                         *)
(* Numbers that the code keeps as floating point are kept here as integer  *)
(* numerators over an explicit denominator ("den"), so that sums and       *)
(* comparisons are exact.                                                  *)
(***************************************************************************)
EXTENDS Integers, Sequences, FiniteSets, TLC

VARIABLES
    env,              \* process.env: the credentials the process was started with
    dpc,              \* detect endpoint: position of the POST handler
    req,              \* detect endpoint: the request body the client sent
    serviceAvailable, \* detect endpoint: local `serviceAvailable`
    calls,            \* detect endpoint: providers invoked in this request, with outcome
    detectResponse,   \* detect endpoint: the NextResponse returned
    rpc,              \* recommend endpoint: position of the POST handler
    recEmotion,       \* recommend endpoint: the `emotion` of the request body
    rec,              \* recommend endpoint: the three promises of getRecommendations
    fetchLog,         \* recommend endpoint: what the network did for each content kind
    recResponse,      \* recommend endpoint: the NextResponse returned
    catalogLog,       \* recommend endpoint: the catalog requests sent to the music provider
    spotifyToken,     \* ContentRecommender.spotifyToken (0 is null)
    isAvailable,      \* SpotifyClient.isAvailable
    accessToken,      \* SpotifyClient.accessToken (0 is null)
    lastCheck,        \* SpotifyClient.lastCheck
    cpc,              \* SpotifyClient: position of the searchTracks / getRecommendations call
    call,             \* SpotifyClient: the locals of that call and what it has sent so far
    cachedToken,      \* spotify-auth route: the module-level cachedToken
    now,              \* Date.now(), in seconds
    tokenExpiry,      \* music provider: end of the lifetime of each token it issued
    authLog,          \* music provider: the token requests it received
    lastRequest,      \* music provider: the bearer of the last catalog request it received
    tracks,           \* what the last song fetch returned
    mounted,          \* detector component: it is in the tree
    serviceMode,      \* detector component: state serviceMode
    isCameraActive,   \* detector component: state isCameraActive
    isDetecting,      \* page component: state isDetecting, passed down as a prop
    view,             \* detector component: the state its last render closed over
    streamRef,        \* detector component: streamRef.current (0 is null)
    live,             \* camera streams handed out whose tracks were not stopped
    acquired,         \* camera streams handed out so far
    pendingCam,       \* getUserMedia requests not yet answered
    inFlight,         \* detection requests sent and not yet answered
    lastClick,        \* what the last click on "Detect Emotion" did
    currentEmotion,   \* page component: the label of state currentEmotion ("none" is null)
    recommendationsShown, \* page component: state recommendations, as the emotion they were requested for
    isLoadingRecommendations, \* page component: state isLoadingRecommendations
    recLog,           \* page component: the recommendation requests it sent, with outcome
    twin,             \* two calls of the aggregator with one emotion and the same answers
    analytics         \* analytics endpoint: the request body and the response to it

detectVars == <<dpc, req, serviceAvailable, calls, detectResponse>>

recVars == <<rpc, recEmotion, rec, fetchLog, recResponse, catalogLog>>

clientVars == <<isAvailable, accessToken, lastCheck, cpc, call>>

providerVars == <<now, tokenExpiry, authLog, lastRequest, tracks>>

musicVars == <<spotifyToken, clientVars, cachedToken, providerVars>>

pageVars == <<currentEmotion, recommendationsShown, isLoadingRecommendations, recLog>>

captureVars ==
    <<mounted, serviceMode, isCameraActive, isDetecting, view, streamRef, live, acquired,
      pendingCam, inFlight, lastClick, pageVars>>

vars == <<env, detectVars, recVars, musicVars, captureVars, twin, analytics>>

----------------------------------------------------------------------------
(* Bounds of the model *)

\* distinct titles the movie, music and book providers can return for one request
MaxMovieHits == 4

MaxSongHits == 1

MaxBookHits == 2

\* the clock of the song fetches advances in steps of TickSeconds, MaxTicks times
TickSeconds == 300

MaxTicks == 2

\* seconds the provider accepts a token it issued (its expires_in)
TokenLifetime == 600

\* tokens the provider issues, and token requests it receives
MaxTokens == 2

MaxAuthCalls == 2

\* catalog requests one SpotifyClient call is followed through
MaxFetches == 3

\* Math.random() is drawn from { k / RandSteps : k \in 0 .. RandSteps-1 }
RandSteps == 2

\* camera permission requests the user makes in one life of the detector component
MaxStreams == 2

\* detection requests followed while they are outstanding
MaxOutstanding == 2

\* recommendation requests the page sends
MaxRecRequests == 2

\* distinct titles a provider returns when the aggregator is called twice
MaxTwinHits == 2

\* detections in the history sent to the analytics endpoint
MaxHistory == 4

\* the draw that selects the simulated emotion uses a finer grid
SelSteps == 20

----------------------------------------------------------------------------
(* Small helpers *)

Min(a, b) == IF a < b THEN a ELSE b

Max(a, b) == IF a > b THEN a ELSE b

RECURSIVE SumOver(_, _)
SumOver(f, S) ==
    IF S = {} THEN 0
    ELSE LET x == CHOOSE y \in S : TRUE IN f[x] + SumOver(f, S \ {x})

SumFn(f) == SumOver(f, DOMAIN f)

EmptyFn == [x \in {} |-> 0]

----------------------------------------------------------------------------
(* The canonical labels: type Emotion *)

Emotions == {"happy", "sad", "angry", "surprised", "neutral", "disgust", "fear"}

\* the fixed "no face" / "all failed" distribution, in hundredths
DefaultDistribution ==
    [happy |-> 10, sad |-> 10, angry |-> 10, surprised |-> 10,
     neutral |-> 50, disgust |-> 5, fear |-> 5]

\* an EmotionDetectionResponse; confidence and all_emotions are numerators over den
Result(success, emotion, confidence, all, den, face, service, error) ==
    [success |-> success, emotion |-> emotion, confidence |-> confidence,
     all_emotions |-> all, den |-> den, face_detected |-> face,
     service_used |-> service, error |-> error]

\* `{ success: false, error } as EmotionDetectionResponse`: the other fields are undefined
FailureResult(error) ==
    Result(FALSE, "undefined", 0, EmptyFn, 1, FALSE, "undefined", error)

\* NextResponse.json({...result, service_mode}, {status})
Response(status, result, mode) ==
    [status |-> status, success |-> result.success, emotion |-> result.emotion,
     confidence |-> result.confidence, all_emotions |-> result.all_emotions,
     den |-> result.den, face_detected |-> result.face_detected,
     service_used |-> result.service_used, service_mode |-> mode,
     error |-> result.error]

NoResponse == Response(0, FailureResult(""), "none")

----------------------------------------------------------------------------
(* route.ts: processImageForFacePlusPlus                                   *)
(* An image string is modelled by its two parts: whether it carries a      *)
(* "data:...," prefix, and the base64 payload ("" empty, "b64" an ordinary *)
(* frame, "huge" one that decodes to more than 2MB).                       *)

Images ==
    {[prefix |-> FALSE, payload |-> ""], [prefix |-> FALSE, payload |-> "b64"],
     [prefix |-> TRUE, payload |-> ""], [prefix |-> TRUE, payload |-> "b64"],
     [prefix |-> TRUE, payload |-> "huge"]}

\* `!image`: the empty string (or a missing field) is falsy
ImageMissing(image) == ~image.prefix /\ image.payload = ""

\* imageData.split(",")[1]
SplitComma1(image) == IF image.prefix THEN image.payload ELSE "undefined"

processImageForFacePlusPlus(image) ==
    LET base64Data == image.payload   \* includes(",") ? split(",")[1] : imageData
    IN  IF base64Data = "" THEN [isValid |-> FALSE, error |-> "Empty image data"]
        ELSE IF base64Data = "huge"
             THEN [isValid |-> FALSE, error |-> "Image too large (maximum 2MB)"]
             ELSE [isValid |-> TRUE, error |-> ""]

----------------------------------------------------------------------------
(* route.ts: the three cloud providers, response handling *)

\* dominant label of a score object: Object.entries(...).forEach with a strict `>`
RECURSIVE DominantOf(_, _, _, _, _)
DominantOf(order, scores, mapping, dominant, maxConfidence) ==
    IF order = << >> THEN [emotion |-> dominant, confidence |-> maxConfidence]
    ELSE LET k == Head(order)
         IN  IF scores[k] > maxConfidence
             THEN DominantOf(Tail(order), scores, mapping, mapping[k], scores[k])
             ELSE DominantOf(Tail(order), scores, mapping, dominant, maxConfidence)

\* the object built by `allEmotions[mapped] = score` over an initial object
Overwrite(initial, order, scores, mapping) ==
    LET keys == {mapping[order[i]] : i \in 1..Len(order)}
        lastOf(m) == CHOOSE i \in 1..Len(order) :
                        /\ mapping[order[i]] = m
                        /\ \A j \in 1..Len(order) : mapping[order[j]] = m => j <= i
    IN  [m \in (DOMAIN initial) \cup keys |->
            IF m \in keys THEN scores[order[lastOf(m)]] ELSE initial[m]]

\* Face++: keys of face.attributes.emotion in the order the provider sends them
FacePlusOrder == <<"anger", "disgust", "fear", "happiness", "neutral", "sadness", "surprise">>

FacePlusLabels == {FacePlusOrder[i] : i \in 1..Len(FacePlusOrder)}

\* emotionMapping[emotion] || emotion
FacePlusMapping ==
    [anger |-> "angry", disgust |-> "disgust", fear |-> "fear", happiness |-> "happy",
     neutral |-> "neutral", sadness |-> "sad", surprise |-> "surprised"]

\* success branch of detectWithFacePlusPlus; scores are percentages, so den = 100
FacePlusFaceResult(scores) ==
    LET zero == [e \in Emotions |-> 0]
        d == DominantOf(FacePlusOrder, scores, FacePlusMapping, "neutral", 0)
    IN  Result(TRUE, d.emotion, d.confidence,
               Overwrite(zero, FacePlusOrder, scores, FacePlusMapping), 100, TRUE,
               "faceplus", "")

FacePlusNoFaceResult ==
    Result(TRUE, "neutral", 30, DefaultDistribution, 100, FALSE, "faceplus", "")

\* Azure: keys of face.faceAttributes.emotion
AzureOrder ==
    <<"anger", "contempt", "disgust", "fear", "happiness", "neutral", "sadness", "surprise">>

AzureLabels == {AzureOrder[i] : i \in 1..Len(AzureOrder)}

\* emotion === "happiness" ? "happy" : emotion === "sadness" ? "sad" : emotion
AzureMapping ==
    [k \in AzureLabels |-> IF k = "happiness" THEN "happy"
                           ELSE IF k = "sadness" THEN "sad" ELSE k]

AzureFaceResult(scores) ==
    LET d == DominantOf(AzureOrder, scores, AzureMapping, "neutral", 0)
    IN  Result(TRUE, d.emotion, d.confidence,
               Overwrite(EmptyFn, AzureOrder, scores, AzureMapping), 100, TRUE,
               "undefined", "")

AzureNoFaceResult ==
    Result(TRUE, "neutral", 40, DefaultDistribution, 100, FALSE, "undefined", "")

\* Google Vision: the four likelihood fields, in the order of emotionMapping
GoogleOrder == <<"joyLikelihood", "sorrowLikelihood", "angerLikelihood", "surpriseLikelihood">>

GoogleFields == {GoogleOrder[i] : i \in 1..Len(GoogleOrder)}

GoogleMapping ==
    [joyLikelihood |-> "happy", sorrowLikelihood |-> "sad",
     angerLikelihood |-> "angry", surpriseLikelihood |-> "surprised"]

Likelihoods == {"UNKNOWN", "VERY_UNLIKELY", "UNLIKELY", "POSSIBLE", "LIKELY", "VERY_LIKELY"}

\* likelihoodToConfidence[likelihood] || 0.1, in hundredths
likelihoodToConfidence(l) ==
    CASE l = "VERY_UNLIKELY" -> 10
      [] l = "UNLIKELY" -> 20
      [] l = "POSSIBLE" -> 40
      [] l = "LIKELY" -> 70
      [] l = "VERY_LIKELY" -> 90
      [] OTHER -> 10

GoogleFaceResultFromZero(face) ==
    LET scores == [f \in GoogleFields |-> likelihoodToConfidence(face[f])]
        d == DominantOf(GoogleOrder, scores, GoogleMapping, "neutral", 0)
    IN  Result(TRUE, d.emotion, d.confidence,
               Overwrite(DefaultDistribution, GoogleOrder, scores, GoogleMapping), 100,
               TRUE, "undefined", "")

\* success branch of detectWithGoogleVision: the default object overwritten per label
GoogleFaceResult(face) ==
    LET scores == [f \in GoogleFields |-> likelihoodToConfidence(face[f])]
        d == DominantOf(GoogleOrder, scores, GoogleMapping, "neutral", 50)
    IN  Result(TRUE, d.emotion, d.confidence,
               Overwrite(DefaultDistribution, GoogleOrder, scores, GoogleMapping), 100,
               TRUE, "undefined", "")

GoogleNoFaceResult ==
    Result(TRUE, "neutral", 40, DefaultDistribution, 100, FALSE, "undefined", "")

\* The provider answers the model feeds in.  Face++ and Azure report percentages
\* that sum to 100: one label at 70 (65) and the rest at 5.
FacePlusSamples ==
    {[k \in FacePlusLabels |-> IF k = top THEN 70 ELSE 5] : top \in FacePlusLabels}

AzureSamples ==
    {[k \in AzureLabels |-> IF k = top THEN 65 ELSE 5] : top \in AzureLabels}

GoogleSampleLikelihoods == {"UNKNOWN", "POSSIBLE", "VERY_LIKELY"}

GoogleSamples == [GoogleFields -> GoogleSampleLikelihoods]

----------------------------------------------------------------------------
(* route.ts: generateRealisticEmotion *)

\* Object.keys(emotionProbabilities), in insertion order
SimOrder == <<"happy", "neutral", "surprised", "sad", "angry", "fear", "disgust">>

\* emotionProbabilities, in hundredths
BaseProbabilities ==
    [happy |-> 25, neutral |-> 20, surprised |-> 15, sad |-> 12,
     angry |-> 10, fear |-> 10, disgust |-> 8]

\* the time-of-day and weekend adjustments, in hundredths
TimeAdjusted(timeOfDay, dayOfWeek) ==
    LET p0 == BaseProbabilities
        p1 == IF timeOfDay >= 6 /\ timeOfDay <= 10
              THEN [p0 EXCEPT !.neutral = @ + 10, !.surprised = @ + 5, !.happy = @ - 5]
              ELSE IF timeOfDay >= 18 /\ timeOfDay <= 22
              THEN [p0 EXCEPT !.happy = @ + 10, !.neutral = @ + 5, !.angry = @ - 5]
              ELSE IF timeOfDay >= 22 \/ timeOfDay <= 5
              THEN [p0 EXCEPT !.neutral = @ + 15, !.sad = @ + 5, !.happy = @ - 10]
              ELSE p0
    IN  IF dayOfWeek = 0 \/ dayOfWeek = 6
        THEN [p1 EXCEPT !.happy = @ + 8, !.angry = @ - 3, !.sad = @ - 2]
        ELSE p1

\* imageVariance in hundredths: 0.5, +0.2 for a "bright" sample, -0.1 for a "dark" one
ImageVariance(brightness) ==
    IF brightness = "bright" THEN 70 ELSE IF brightness = "dark" THEN 40 ELSE 50

\* probabilities after the image variance is applied, in 1/1000000
Perturbed(timeOfDay, dayOfWeek, brightness) ==
    LET p == TimeAdjusted(timeOfDay, dayOfWeek)
        iv == ImageVariance(brightness)
    IN  [e \in Emotions |->
            IF e \in {"happy", "surprised"} THEN p[e] * (10000 + iv * 30)
            ELSE IF e \in {"sad", "angry"} THEN p[e] * (10000 - iv * 20)
            ELSE p[e] * 10000]

\* the weighted draw: randomValue = r / SelSteps, compared after normalising by the total
RECURSIVE WeightedPick(_, _, _, _, _)
WeightedPick(order, p, total, r, cum) ==
    IF order = << >> THEN "neutral"
    ELSE LET c == cum + p[Head(order)]
         IN  IF r * total - SelSteps * c <= 0 THEN Head(order)
             ELSE WeightedPick(Tail(order), p, total, r, c)

SelectPrimary(timeOfDay, dayOfWeek, brightness, r) ==
    LET p == Perturbed(timeOfDay, dayOfWeek, brightness)
    IN  WeightedPick(SimOrder, p, SumFn(p), r, 0)

Brightness == {"dark", "mid", "bright"}

\* every label the weighted draw can select, over the hours, days and images
SimPrimaryChoices ==
    {SelectPrimary(t, d, b, r) : t \in 0..23, d \in 0..6, b \in Brightness, r \in 0..(SelSteps - 1)}

\* baseConfidence, in hundredths
baseConfidence ==
    [happy |-> [min |-> 70, max |-> 95], sad |-> [min |-> 65, max |-> 88],
     angry |-> [min |-> 72, max |-> 92], surprised |-> [min |-> 68, max |-> 91],
     neutral |-> [min |-> 60, max |-> 85], fear |-> [min |-> 63, max |-> 87],
     disgust |-> [min |-> 66, max |-> 89]]

\* one unit of the simulator's arithmetic is 1/10000
SimScale == 10000

\* Math.random() * (hi - lo) + lo, with Math.random() = r / RandSteps
Between(r, lo, hi) == lo + (r * (hi - lo)) \div RandSteps

\* filter(e => e !== primaryEmotion)
RECURSIVE Without(_, _)
Without(order, e) ==
    IF order = << >> THEN << >>
    ELSE IF Head(order) = e THEN Without(Tail(order), e)
         ELSE <<Head(order)>> \o Without(Tail(order), e)

coexistFactor(primaryEmotion, emotion) ==
    IF primaryEmotion = "happy" /\ emotion = "surprised" THEN 15
    ELSE IF primaryEmotion = "sad" /\ emotion = "fear" THEN 13
    ELSE IF primaryEmotion = "angry" /\ emotion = "disgust" THEN 14
    ELSE 10

\* otherEmotions.forEach: rs holds one draw per secondary emotion but the last
RECURSIVE Distribute(_, _, _, _, _)
Distribute(others, primaryEmotion, remainingToDistribute, rs, acc) ==
    IF Len(others) = 1
    THEN acc @@ (Head(others) :> Max(SimScale \div 100, remainingToDistribute))
    ELSE LET emotion == Head(others)
             maxAllowed == (remainingToDistribute * 6 * coexistFactor(primaryEmotion, emotion)) \div 100
             minAllowed == SimScale \div 100
             emotionScore == Between(Head(rs), minAllowed, maxAllowed)
             v == Min(emotionScore, remainingToDistribute - SimScale \div 100)
         IN  Distribute(Tail(others), primaryEmotion, remainingToDistribute - v,
                        Tail(rs), acc @@ (emotion :> v))

\* the total is taken before the primary emotion is stored
NormalizeTotalBeforePrimary(allEmotions, primaryEmotion) ==
    SumOver(allEmotions, (DOMAIN allEmotions) \ {primaryEmotion})

\* `total`: the sum the final loop divides by
NormalizeTotal(allEmotions, primaryEmotion) == SumFn(allEmotions)

generateRealisticEmotion(primaryEmotion, rc, rs) ==
    LET cfg == baseConfidence[primaryEmotion]
        confidence == Between(rc, cfg.min * 100, cfg.max * 100)
        others == Without(SimOrder, primaryEmotion)
        allEmotions == Distribute(others, primaryEmotion, SimScale - confidence, rs, EmptyFn)
                           @@ (primaryEmotion :> confidence)
        total == NormalizeTotal(allEmotions, primaryEmotion)
    IN  \* allEmotions[e] /= total: the numerators stay, the denominator is total
        Result(TRUE, primaryEmotion, allEmotions[primaryEmotion], allEmotions, total,
               TRUE, "enhanced_simulation", "")

SimDraws == [1..5 -> 0..(RandSteps - 1)]

----------------------------------------------------------------------------
(* route.ts: POST of the detect endpoint, with detectEmotionWithAI and the *)
(* request-sending halves of the three detectWith... functions inlined at  *)
(* the places where POST awaits them.  Every `await fetch` is a suspension *)
(* point: the request is sent in one step and answered in a later one.     *)

FacePlusKeyPlaceholder == "your_faceplus_api_key_here"

FacePlusSecretPlaceholder == "your_faceplus_api_secret_here"

\* the priority of a provider in the chain
Priority ==
    [deepface |-> 1, faceplus |-> 2, azure |-> 3, google |-> 4, simulator |-> 5]

RealProviders == {"deepface", "faceplus", "azure", "google"}

\* the log of provider invocations: who was invoked, and what came back
Call(p) == [p |-> p, out |-> "pending", report |-> "none", emotion |-> ""]

SetOutcome(cl, out, emotion) ==
    [cl EXCEPT ![Len(cl)] = [p |-> @.p, out |-> out, report |-> "none", emotion |-> emotion]]

\* what the provider did: it returned a result ("face" or "noface"), or it did not
Outcome(answer) == IF answer.out \in {"ok", "face", "noface"} THEN "success" ELSE "failure"

\* what a cloud provider said about the face in the image, if it said anything
Report(answer) == IF answer.out \in {"face", "noface"} THEN answer.out ELSE "none"

SetAnswer(cl, answer, emotion) ==
    [cl EXCEPT ![Len(cl)] = [p |-> @.p, out |-> Outcome(answer), report |-> Report(answer),
                             emotion |-> emotion]]

\* an answer without a face is taken for a failure, and the chain goes on
IsSuccessNeedsFace(result) == result.success /\ result.face_detected

\* the test `xResult.success` that decides whether the chain stops
IsSuccess(result) == result.success

Step(pc, cl, resp) == [pc |-> pc, calls |-> cl, resp |-> resp]

\* the flag is read under another name than the one the client sends: always undefined
ParseRequestWrongField(body) ==
    [image |-> body.image, forceRealDetection |-> FALSE]

\* const { image, forceRealDetection } = await request.json()
ParseRequest(body) ==
    [image |-> body.image, forceRealDetection |-> body.forceRealDetection]

hasFacePlusCredentials(e) ==
    /\ e.FACEPLUS_API_KEY # ""
    /\ e.FACEPLUS_API_SECRET # ""
    /\ e.FACEPLUS_API_KEY # FacePlusKeyPlaceholder
    /\ e.FACEPLUS_API_SECRET # FacePlusSecretPlaceholder

\* detectWithFacePlusPlus up to its fetch: TRUE when the request is sent
FacePlusSends(e, image) ==
    /\ e.FACEPLUS_API_KEY # ""
    /\ e.FACEPLUS_API_SECRET # ""
    /\ processImageForFacePlusPlus(image).isValid

\* detectWithAzureFace up to its fetch; Buffer.from(undefined) throws into the catch
AzureSends(e, image) ==
    /\ e.AZURE_FACE_API_KEY # ""
    /\ e.AZURE_FACE_ENDPOINT # ""
    /\ SplitComma1(image) # "undefined"

\* detectWithGoogleVision up to its fetch
GoogleSends(e, image) == e.GOOGLE_VISION_API_KEY # ""

\* POST, the else branch of `aiResult.success && aiResult.service_used !== "none"`
AllAiFailed(rq, cl) ==
    IF rq.forceRealDetection
    THEN Step("done", cl,
              Response(503, FailureResult("All real emotion detection services are unavailable"),
                       "no_real_service"))
    ELSE Step("simulate", cl, NoResponse)

\* detectEmotionWithAI from `await detectWithGoogleVision(imageData)`
EnterGoogle(e, rq, cl) ==
    IF GoogleSends(e, rq.image)
    THEN Step("await_google", Append(cl, Call("google")), NoResponse)
    ELSE AllAiFailed(rq, cl)

\* the Azure call is not awaited: Google is invoked while Azure is still in flight
EnterAzureNoAwait(e, rq, cl) ==
    IF AzureSends(e, rq.image)
    THEN EnterGoogle(e, rq, Append(cl, Call("azure")))
    ELSE EnterGoogle(e, rq, cl)

\* detectEmotionWithAI from `await detectWithAzureFace(imageData)`
EnterAzure(e, rq, cl) ==
    IF AzureSends(e, rq.image)
    THEN Step("await_azure", Append(cl, Call("azure")), NoResponse)
    ELSE EnterGoogle(e, rq, cl)

\* POST from `await detectEmotionWithAI(image)`, which starts with Face++ again
detectEmotionWithAI(e, rq, cl) ==
    IF FacePlusSends(e, rq.image)
    THEN Step("await_ai_faceplus", Append(cl, Call("faceplus")), NoResponse)
    ELSE EnterAzure(e, rq, cl)

\* POST, the else branch of `facePlusResult.success` of the direct Face++ call
FacePlusDirectFailed(e, rq, cl) ==
    IF rq.forceRealDetection
    THEN Step("done", cl, Response(400, FailureResult("Face++ API error"), "faceplus_error"))
    ELSE detectEmotionWithAI(e, rq, cl)

\* POST from `if (hasFacePlusCredentials)`
TryFacePlusDirect(e, rq, cl) ==
    IF hasFacePlusCredentials(e)
    THEN IF FacePlusSends(e, rq.image)
         THEN Step("await_faceplus", Append(cl, Call("faceplus")), NoResponse)
         ELSE FacePlusDirectFailed(e, rq, cl)
    ELSE detectEmotionWithAI(e, rq, cl)

\* POST from its first line to the health check
StartDetect(e, rq) ==
    IF ImageMissing(rq.image)
    THEN Step("done", << >>, Response(400, FailureResult("No image data provided"), "none"))
    ELSE IF rq.forceRealDetection /\ ~hasFacePlusCredentials(e)
    THEN Step("done", << >>,
              Response(400, FailureResult("Face++ API credentials not configured"), "error"))
    ELSE Step("await_health", <<Call("deepface")>>, NoResponse)

\* the handler runs on from r; when it reaches generateRealisticEmotion the draws are made
Commit(r) ==
    IF r.pc = "simulate"
    THEN \E primaryEmotion \in SimPrimaryChoices, rc \in 0..(RandSteps - 1), rs \in SimDraws :
            /\ dpc' = "done"
            /\ calls' = Append(r.calls, [p |-> "simulator", out |-> "success",
                                         report |-> "none",
                                         emotion |-> primaryEmotion])
            /\ detectResponse' =
                   Response(200, generateRealisticEmotion(primaryEmotion, rc, rs), "simulation")
    ELSE /\ dpc' = r.pc
         /\ calls' = r.calls
         /\ detectResponse' = r.resp

Bodies == [image : Images, forceRealDetection : BOOLEAN]

\* a detect request arrives
DetectPOST(body) ==
    /\ dpc = "idle"
    /\ req' = body
    /\ serviceAvailable' = FALSE
    /\ LET r == StartDetect(env, ParseRequest(body))
       IN  /\ dpc' = r.pc
           /\ calls' = r.calls
           /\ detectResponse' = r.resp
    /\ UNCHANGED <<env, twin, analytics, captureVars, recVars, musicVars>>

\* request.json() throws: the outer catch answers 500
DetectPOSTMalformed ==
    /\ dpc = "idle"
    /\ dpc' = "done"
    /\ calls' = << >>
    /\ serviceAvailable' = FALSE
    /\ detectResponse' = Response(500, FailureResult("Unknown error in emotion detection"), "error")
    /\ UNCHANGED <<env, twin, analytics, captureVars, req, recVars, musicVars>>

\* the answer to GET /health
HealthResponse(out) ==
    /\ dpc = "await_health"
    /\ serviceAvailable' = (out = "ok")
    /\ IF out = "ok"
       THEN /\ dpc' = "await_deepface"
            /\ calls' = Append(SetOutcome(calls, "alive", ""), Call("deepface"))
            /\ UNCHANGED detectResponse
       ELSE Commit(TryFacePlusDirect(env, ParseRequest(req), SetOutcome(calls, "failure", "")))
    /\ UNCHANGED <<env, twin, analytics, captureVars, req, recVars, musicVars>>

\* what the local service may answer to /detect-emotion with a 2xx status
DeepFaceSamples ==
    {Result(TRUE, "happy", 80, [e \in Emotions |-> IF e = "happy" THEN 80 ELSE IF e = "neutral" THEN 20 ELSE 0],
            100, TRUE, "deepface", ""),
     Result(FALSE, "undefined", 0, EmptyFn, 1, FALSE, "undefined", "No face detected")}

DeepFaceAnswers ==
    {[out |-> "ok", result |-> r] : r \in DeepFaceSamples}
        \cup {[out |-> o, result |-> FailureResult("")] : o \in {"http_error", "malformed", "neterr"}}

\* the answer to POST /detect-emotion: a parsed body, or a failure
DeepFaceResponse(answer) ==
    /\ dpc = "await_deepface"
    /\ IF answer.out = "ok"
       THEN /\ dpc' = "done"
            /\ calls' = SetAnswer(calls, answer, answer.result.emotion)
            /\ detectResponse' = Response(200, answer.result, "deepface_ai")
       ELSE Commit(TryFacePlusDirect(env, ParseRequest(req),
                                     SetAnswer(calls, answer, "")))
    /\ UNCHANGED <<env, twin, analytics, captureVars, req, serviceAvailable, recVars, musicVars>>

\* detectWithFacePlusPlus from the answer of its fetch
FacePlusAnswer(answer) ==
    IF answer.out = "face" THEN FacePlusFaceResult(answer.scores)
    ELSE IF answer.out = "noface" THEN FacePlusNoFaceResult
    ELSE FailureResult("Face++ API error")

\* what a cloud provider may answer: a face with scores, no face, a non-2xx status,
\* a body that does not parse, or nothing (network error or timeout)
CloudAnswers(samples) ==
    {[out |-> "face", scores |-> s] : s \in samples}
        \cup {[out |-> o, scores |-> EmptyFn] : o \in {"noface", "http_error", "malformed", "neterr"}}

\* the direct Face++ call of POST is answered
FacePlusDirectResponse(answer) ==
    /\ dpc = "await_faceplus"
    /\ LET facePlusResult == FacePlusAnswer(answer)
       IN  IF IsSuccess(facePlusResult)
           THEN /\ dpc' = "done"
                /\ calls' = SetAnswer(calls, answer, facePlusResult.emotion)
                /\ detectResponse' = Response(200, facePlusResult, "faceplus_direct")
           ELSE Commit(FacePlusDirectFailed(env, ParseRequest(req), 
                                SetAnswer(calls, answer, facePlusResult.emotion)))
    /\ UNCHANGED <<env, twin, analytics, captureVars, req, serviceAvailable, recVars, musicVars>>

\* a successful aiResult: `aiResult.success && aiResult.service_used !== "none"`
CloudAiSuccess(result, service) ==
    Response(200, [result EXCEPT !.service_used = service], "cloud_ai")

\* the Face++ call of detectEmotionWithAI is answered
AiFacePlusResponse(answer) ==
    /\ dpc = "await_ai_faceplus"
    /\ LET facePlusResult == FacePlusAnswer(answer)
       IN  IF IsSuccess(facePlusResult)
           THEN /\ dpc' = "done"
                /\ calls' = SetAnswer(calls, answer, facePlusResult.emotion)
                /\ detectResponse' = CloudAiSuccess(facePlusResult, "faceplus")
           ELSE Commit(EnterAzure(env, ParseRequest(req), 
                                SetAnswer(calls, answer, facePlusResult.emotion)))
    /\ UNCHANGED <<env, twin, analytics, captureVars, req, serviceAvailable, recVars, musicVars>>

AzureAnswerNoFaceFails(answer) ==
    IF answer.out = "face" THEN AzureFaceResult(answer.scores)
    ELSE FailureResult("")

\* detectWithAzureFace from the answer of its fetch
AzureAnswer(answer) ==
    IF answer.out = "face" THEN AzureFaceResult(answer.scores)
    ELSE IF answer.out = "noface" THEN AzureNoFaceResult
    ELSE FailureResult("")

AzureResponse(answer) ==
    /\ dpc = "await_azure"
    /\ LET azureResult == AzureAnswer(answer)
       IN  IF IsSuccess(azureResult)
           THEN /\ dpc' = "done"
                /\ calls' = SetAnswer(calls, answer, azureResult.emotion)
                /\ detectResponse' = CloudAiSuccess(azureResult, "azure")
           ELSE Commit(EnterGoogle(env, ParseRequest(req), 
                                SetAnswer(calls, answer, azureResult.emotion)))
    /\ UNCHANGED <<env, twin, analytics, captureVars, req, serviceAvailable, recVars, musicVars>>

\* detectWithGoogleVision from the answer of its fetch
GoogleAnswer(answer) ==
    IF answer.out = "face" THEN GoogleFaceResult(answer.scores)
    ELSE IF answer.out = "noface" THEN GoogleNoFaceResult
    ELSE FailureResult("")

GoogleResponse(answer) ==
    /\ dpc = "await_google"
    /\ LET googleResult == GoogleAnswer(answer)
       IN  IF IsSuccess(googleResult)
           THEN /\ dpc' = "done"
                /\ calls' = SetAnswer(calls, answer, googleResult.emotion)
                /\ detectResponse' = CloudAiSuccess(googleResult, "google")
           ELSE Commit(AllAiFailed(ParseRequest(req), 
                                SetAnswer(calls, answer, googleResult.emotion)))
    /\ UNCHANGED <<env, twin, analytics, captureVars, req, serviceAvailable, recVars, musicVars>>

----------------------------------------------------------------------------
(* The recommend endpoint: static fallback content *)

getFallbackMoviesTitles ==
    [happy |-> <<"The Grand Budapest Hotel", "Paddington 2", "The Princess Bride">>,
     sad |-> <<"Inside Out", "A Monster Calls", "Good Will Hunting">>,
     neutral |-> <<"The Shawshank Redemption", "Forrest Gump", "The Pursuit of Happyness">>,
     angry |-> <<"The Karate Kid", "Rocky", "Peaceful Warrior">>,
     surprised |-> <<"Inception", "The Sixth Sense", "Shutter Island">>,
     disgust |-> <<"WALL-E", "My Neighbor Totoro", "The Secret Garden">>,
     fear |-> <<"Finding Nemo", "The Lion King", "Brave">>]

getFallbackSongsTitles ==
    [happy |-> <<"Happy - Pharrell Williams", "Good as Hell - Lizzo", "Walking on Sunshine - Katrina and the Waves">>,
     sad |-> <<"Here Comes the Sun - The Beatles", "Three Little Birds - Bob Marley", "Lean on Me - Bill Withers">>,
     neutral |-> <<"Hotel California - Eagles", "Bohemian Rhapsody - Queen", "Imagine - John Lennon">>,
     angry |-> <<"Eye of the Tiger - Survivor", "Breathe Me - Sia", "Stronger - Kelly Clarkson">>,
     surprised |-> <<"Bohemian Rhapsody - Queen", "Thunderstruck - AC/DC", "Mr. Blue Sky - Electric Light Orchestra">>,
     disgust |-> <<"What a Wonderful World - Louis Armstrong", "Over the Rainbow - Judy Garland", "Pure Imagination - Gene Wilder">>,
     fear |-> <<"Brave - Sara Bareilles", "Fight Song - Rachel Platten", "Roar - Katy Perry">>]

getGoodreadsStyleBooksTitles ==
    [happy |-> <<"The Seven Husbands of Evelyn Hugo", "Beach Read", "The House in the Cerulean Sea">>,
     sad |-> <<"A Man Called Ove", "The Book Thief", "Me Before You">>,
     neutral |-> <<"Educated", "Atomic Habits", "Where the Crawdads Sing">>,
     angry |-> <<"The Power", "The Rage of Dragons", "The Power of Now">>,
     surprised |-> <<"The Silent Patient", "Gone Girl", "The Midnight Library">>,
     disgust |-> <<"The Alchemist", "A Good Girl's Guide to Murder", "The Thursday Murder Club">>,
     fear |-> <<"Anxious People", "The Cozy Life", "Maybe You Should Talk to Someone">>]

getFallbackBooksTitles ==
    [happy |-> <<"The Alchemist", "The Happiness Project", "Yes Please">>,
     sad |-> <<"The Book Thief", "A Man Called Ove", "The Light We Lost">>,
     neutral |-> <<"To Kill a Mockingbird", "The Great Gatsby", "1984">>,
     angry |-> <<"The Power of Now", "Anger: Wisdom for Cooling the Flames", "The Gifts of Imperfection">>,
     surprised |-> <<"Gone Girl", "The Girl with the Dragon Tattoo", "Big Little Lies">>,
     disgust |-> <<"The Little Prince", "Charlotte's Web", "The Secret Garden">>,
     fear |-> <<"Feel the Fear and Do It Anyway", "The Confidence Code", "Daring Greatly">>]

\* a member every object literal inherits from Object.prototype: the lookup
\* table[emotion] finds it although the table has no such entry
PrototypeKeys == {"toString"}

\* the entries of a fallback table carry the ids "1", "2", "3"
Items(titles) == [i \in 1..Len(titles) |-> [id |-> ToString(i), title |-> titles[i]]]

\* `return table[emotion] || table.neutral`; an inherited member is truthy, has
\* length 0 and is dropped by JSON.stringify: it reads as a list without items
Lookup(table, emotion) ==
    IF emotion \in DOMAIN table THEN Items(table[emotion])
    ELSE IF emotion \in PrototypeKeys THEN << >>
    ELSE Items(table.neutral)

getFallbackMovies(emotion) == Lookup(getFallbackMoviesTitles, emotion)

getFallbackSongs(emotion) == Lookup(getFallbackSongsTitles, emotion)

getGoodreadsStyleBooks(emotion) == Lookup(getGoodreadsStyleBooksTitles, emotion)

getFallbackBooks(emotion) == Lookup(getFallbackBooksTitles, emotion)

\* the truthiness of emotionConfig[emotion]
emotionConfig(emotion) == emotion \in Emotions \/ emotion \in PrototypeKeys

----------------------------------------------------------------------------
(* The recommend endpoint: ContentRecommender *)

Kinds == {"movies", "music", "books"}

Promise(status, value) == [status |-> status, value |-> value]

Pending == Promise("pending", << >>)

NotStarted == Promise("none", << >>)

OmdbPlaceholder == "your_actual_omdb_api_key_here"

OmdbTemplatePlaceholder == "your_omdb_api_key_here"

MovieCap == 10

SongCap == 15

BookCap == 10

SetMax(S) == CHOOSE x \in S : \A y \in S : y <= x

\* what the searches of one request gathered, in the order gathered: hit n is
\* the n-th distinct title met, so a repeated number is a repeated title
RawHits(n) ==
    {s \in UNION {[1..k -> 1..n] : k \in 0..n} :
        \A i \in 1..Len(s) : s[i] <= 1 + SetMax({0} \cup {s[j] : j \in 1..(i - 1)})}

\* the seenIds / seenNames / seenTitles loop
RECURSIVE Unique(_, _)
Unique(raw, seen) ==
    IF raw = << >> THEN << >>
    ELSE IF Head(raw) \in seen THEN Unique(Tail(raw), seen)
    ELSE <<Head(raw)>> \o Unique(Tail(raw), seen \cup {Head(raw)})

Swap(s, i, j) == [s EXCEPT ![i] = s[j], ![j] = s[i]]

\* for (i = length - 1; i > 0; i--) swap(i, floor(random * (i + 1))), 1-based
RECURSIVE FisherYates(_, _, _)
FisherYates(s, i, js) ==
    IF i <= 1 THEN s ELSE FisherYates(Swap(s, i, js[i]), i - 1, js)

ShuffleDraws(n) == {js \in [1..n -> 1..n] : \A i \in 1..n : js[i] <= i}

Shuffles(s) == {FisherYates(s, Len(s), js) : js \in ShuffleDraws(Len(s))}

Slice(s, n) == SubSeq(s, 1, Min(Len(s), n))

\* the lists a fetch can return for what its searches gathered
Returned(raw, cap) == {Slice(sh, cap) : sh \in Shuffles(Unique(raw, {}))}

\* emotionMappings[emotion] is an inherited function: its movie_queries,
\* music_genres and book_queries are undefined and .slice on them throws
MappingThrows(emotion) == emotion \in PrototypeKeys

MovieKeyUsable(key) == key # "" /\ key # OmdbPlaceholder

SpotifyCredentials(e) == e.SPOTIFY_CLIENT_ID # "" /\ e.SPOTIFY_CLIENT_SECRET # ""

\* getMovieRecommendations up to its first fetch
StartMovies(e, emotion) ==
    IF ~MovieKeyUsable(e.OMDB_API_KEY) \/ MappingThrows(emotion)
    THEN Promise("rejected", << >>)
    ELSE Pending

TokenCachedNever(token) == FALSE

\* `if (this.spotifyToken)`: a token once stored is used whatever its age
TokenCached(token) == token # 0

\* getMusicRecommendations sends a request unless it has no credentials, or
\* has a token already and throws on the mapping
MusicNeedsNetwork(e, emotion, token) ==
    SpotifyCredentials(e) /\ ~(TokenCached(token) /\ MappingThrows(emotion))

StartMusic(e, emotion, token) ==
    IF MusicNeedsNetwork(e, emotion, token) THEN Pending ELSE Promise("fulfilled", << >>)

StartBooks(emotion) ==
    IF MappingThrows(emotion) THEN Promise("fulfilled", << >>) ELSE Pending

\* the answers of a content provider to the searches of one fetch
SearchAnswers(n) ==
    {[out |-> "failure", raw |-> << >>]} \cup {[out |-> "answered", raw |-> r] : r \in RawHits(n)}

getMovieRecommendations(answer) == Returned(answer.raw, MovieCap)

getBookRecommendations(answer) == Returned(answer.raw, BookCap)

getSpotifyTokenForgetful(token, auth, access_token) ==
    IF TokenCached(token) THEN 0
    ELSE IF auth = "ok" THEN access_token
    ELSE 0

\* getSpotifyToken: the cached token, else the token of a successful
\* authentication, else null; auth is "none" when no request is sent
getSpotifyToken(token, auth, access_token) ==
    IF TokenCached(token) THEN token
    ELSE IF auth = "ok" THEN access_token
    ELSE 0

\* getMusicRecommendations from its first request on: the token it leaves in
\* spotifyToken, the bearer it sent (0 for none) and the lists it can return
getMusicRecommendations(emotion, token, answer) ==
    LET tok == getSpotifyToken(token, answer.auth, answer.access_token)
    IN  [spotifyToken |-> tok,
         bearer |-> IF tok # 0 /\ ~MappingThrows(emotion) THEN tok ELSE 0,
         lists |-> IF tok = 0 \/ MappingThrows(emotion) THEN {<< >>}
                   ELSE Returned(answer.raw, SongCap)]

getRecommendationsAllOrNothing(promises) ==
    [k \in Kinds |-> IF \A j \in Kinds : promises[j].status = "fulfilled"
                     THEN promises[k].value ELSE << >>]

\* Promise.allSettled in getRecommendations
getRecommendations(promises) ==
    [k \in Kinds |-> IF promises[k].status = "fulfilled" THEN promises[k].value ELSE << >>]

----------------------------------------------------------------------------
(* The recommend endpoint: POST /api/recommendations *)

MovieItem(n) == [id |-> "tt" \o ToString(n), title |-> "movie " \o ToString(n)]

\* Math.random().toString(36): the value of a generated id is not tracked
SongItem(n) == [id |-> "generated", title |-> "song " \o ToString(n) \o " - artist"]

BookItem(n) == [id |-> "generated", title |-> "book " \o ToString(n)]

transformedMovies(movies) == [i \in 1..Len(movies) |-> MovieItem(movies[i])]

transformedSongs(music) == [i \in 1..Len(music) |-> SongItem(music[i])]

transformedBooks(books) == [i \in 1..Len(books) |-> BookItem(books[i])]

RecResponse(status, movies, songs, books, spotify, omdb, enhanced, error) ==
    [status |-> status, movies |-> movies, songs |-> songs, books |-> books,
     spotify_available |-> spotify, omdb_configured |-> omdb,
     enhanced_backend |-> enhanced, error |-> error]

NoRecResponse == RecResponse(0, << >>, << >>, << >>, FALSE, FALSE, FALSE, "")

InvalidEmotion ==
    RecResponse(400, << >>, << >>, << >>, FALSE, FALSE, FALSE, "Invalid emotion provided")

\* the outer catch
UsingFallback ==
    RecResponse(200, getFallbackMovies("neutral"), getFallbackSongs("neutral"),
                getFallbackBooks("neutral"), FALSE, FALSE, FALSE,
                "Using fallback recommendations")

\* fetchMovies, fetchSpotifySongs and fetchBooks as the handler reaches them:
\* with an emotion whose emotionConfig entry is an inherited member, so that
\* reading its movies, songs.genres, songs.queries and books throws before a
\* request is sent and each function answers with its fallback
fetchMovies(emotion) == getFallbackMovies(emotion)

fetchSpotifySongs(emotion) == getFallbackSongs(emotion)

fetchBooks(emotion) == getFallbackBooks(emotion)

OriginalLogic(e, emotion, available) ==
    RecResponse(200, fetchMovies(emotion), fetchSpotifySongs(emotion), fetchBooks(emotion),
                available, e.OMDB_API_KEY # "", FALSE, "")

MoviesToReturnNoFallback(transformed, emotion) == transformed

MoviesToReturn(transformed, emotion) ==
    IF Len(transformed) > 0 THEN transformed ELSE getFallbackMovies(emotion)

SongsToReturn(transformed, emotion) ==
    IF Len(transformed) > 0 THEN transformed ELSE getFallbackSongs(emotion)

BooksToReturnFallbackBooks(transformed, emotion) ==
    IF Len(transformed) > 0 THEN transformed ELSE getFallbackBooks(emotion)

BooksToReturn(transformed, emotion) ==
    IF Len(transformed) > 0 THEN transformed ELSE getGoodreadsStyleBooks(emotion)

\* the handler from the return of contentRecommender.getRecommendations on
EnhancedResponse(e, emotion, recommendations, available) ==
    LET moviesToReturn == MoviesToReturn(transformedMovies(recommendations.movies), emotion)
        songsToReturn == SongsToReturn(transformedSongs(recommendations.music), emotion)
        booksToReturn == BooksToReturn(transformedBooks(recommendations.books), emotion)
    IN  IF Len(moviesToReturn) > 0 \/ Len(songsToReturn) > 0 \/ Len(booksToReturn) > 0
        THEN RecResponse(200, moviesToReturn, songsToReturn, booksToReturn,
                         available, e.OMDB_API_KEY # "", TRUE, "")
        ELSE OriginalLogic(e, emotion, available)

IdlePromises == [k \in Kinds |-> NotStarted]

NoFetches == [k \in Kinds |-> "none"]

\* a promise settles; the handler resumes when the last of the three has
Settle(emotion, promises, log) ==
    /\ rec' = promises
    /\ fetchLog' = log
    /\ IF \E k \in Kinds : promises[k].status = "pending"
       THEN /\ rpc' = "fetching"
            /\ recResponse' = NoRecResponse
       ELSE /\ rpc' = "done"
            /\ recResponse' = EnhancedResponse(env, emotion, getRecommendations(promises),
                                               isAvailable)

RecommendPOST(emotion) ==
    /\ rpc \in {"idle", "done"}
    /\ recEmotion' = emotion
    /\ catalogLog' = << >>
    /\ IF emotion = "" \/ ~emotionConfig(emotion)
       THEN /\ rpc' = "done"
            /\ rec' = IdlePromises
            /\ fetchLog' = NoFetches
            /\ recResponse' = InvalidEmotion
       ELSE LET promises == [movies |-> StartMovies(env, emotion),
                             music |-> StartMusic(env, emotion, spotifyToken),
                             books |-> StartBooks(emotion)]
            IN  Settle(emotion, promises,
                       [k \in Kinds |-> IF promises[k].status = "pending"
                                        THEN "none" ELSE "skipped"])
    /\ UNCHANGED <<env, twin, analytics, captureVars, detectVars, musicVars>>

\* request.json() throws
RecommendPOSTMalformed ==
    /\ rpc \in {"idle", "done"}
    /\ rpc' = "done"
    /\ recEmotion' = ""
    /\ catalogLog' = << >>
    /\ rec' = IdlePromises
    /\ fetchLog' = NoFetches
    /\ recResponse' = UsingFallback
    /\ UNCHANGED <<env, twin, analytics, captureVars, detectVars, musicVars>>

MovieResponse(answer) ==
    /\ rpc = "fetching"
    /\ rec.movies.status = "pending"
    /\ \E movies \in getMovieRecommendations(answer) :
           Settle(recEmotion, [rec EXCEPT !.movies = Promise("fulfilled", movies)],
                  [fetchLog EXCEPT !.movies = answer.out])
    /\ UNCHANGED <<env, twin, analytics, captureVars, detectVars, recEmotion, catalogLog, musicVars>>

BookResponse(answer) ==
    /\ rpc = "fetching"
    /\ rec.books.status = "pending"
    /\ \E books \in getBookRecommendations(answer) :
           Settle(recEmotion, [rec EXCEPT !.books = Promise("fulfilled", books)],
                  [fetchLog EXCEPT !.books = answer.out])
    /\ UNCHANGED <<env, twin, analytics, captureVars, detectVars, recEmotion, catalogLog, musicVars>>

\* the catalog requests of getMusicRecommendations: one `/v1/search?q=genre:...` for each
\* of the first two genres of the emotion, when it holds a token
CatalogRequests(bearer) == IF bearer # 0 THEN <<"search", "search">> ELSE << >>

\* the answers of the music provider to one getMusicRecommendations: to the
\* token request, when one is sent, and to the searches, when a token is held
MusicAnswers(token, access_token, n) ==
    IF TokenCached(token)
    THEN {[auth |-> "none", access_token |-> 0, out |-> s.out, raw |-> s.raw] :
              s \in SearchAnswers(n)}
    ELSE {[auth |-> "failure", access_token |-> 0, out |-> "failure", raw |-> << >>]}
         \cup {[auth |-> "ok", access_token |-> access_token, out |-> s.out, raw |-> s.raw] :
                   s \in SearchAnswers(n)}

MusicResponse(answer) ==
    /\ rpc = "fetching"
    /\ rec.music.status = "pending"
    /\ LET r == getMusicRecommendations(recEmotion, spotifyToken, answer)
       IN  /\ spotifyToken' = r.spotifyToken
           /\ catalogLog' = CatalogRequests(r.bearer)
           /\ \E music \in r.lists :
                  Settle(recEmotion, [rec EXCEPT !.music = Promise("fulfilled", music)],
                         [fetchLog EXCEPT !.music =
                              IF answer.auth = "ok" \/ (r.bearer # 0 /\ answer.out = "answered")
                              THEN "answered" ELSE "failure"])
    /\ UNCHANGED <<env, twin, analytics, captureVars, detectVars, recEmotion, clientVars, cachedToken, providerVars>>

----------------------------------------------------------------------------
(* emotion-analytics/route.ts: POST and analyzeEmotionHistory.  Percentages *)
(* and the average confidence are numerators over den = history.length.    *)

\* the entries of a history: {emotion, confidence, timestamp}; confidence in hundredths
Detections ==
    {[emotion |-> e, confidence |-> 80] : e \in Emotions}
        \cup {[emotion |-> "contempt", confidence |-> 50],
              [emotion |-> "happy", confidence |-> 60]}

Histories(n) == UNION {[1..k -> Detections] : k \in 0..n}

\* Object.keys(emotionCounts): the labels in the order of their first detection
RECURSIVE CountedKeys(_)
CountedKeys(history) ==
    IF history = << >> THEN << >>
    ELSE LET front == CountedKeys(SubSeq(history, 1, Len(history) - 1))
             emotion == history[Len(history)].emotion
         IN  IF \E i \in DOMAIN front : front[i] = emotion THEN front
             ELSE Append(front, emotion)

emotionCounts(history) ==
    [e \in {history[i].emotion : i \in DOMAIN history} |->
        Cardinality({i \in DOMAIN history : history[i].emotion = e})]

\* (emotionCounts[emotion] / history.length) * 100, over den
emotionDistribution(history) ==
    [e \in DOMAIN emotionCounts(history) |-> emotionCounts(history)[e] * 100]

recentEmotionsWholeHistory(history) == [i \in DOMAIN history |-> history[i].emotion]

\* history.slice(-3).map((d) => d.emotion)
recentEmotions(history) ==
    LET n == Min(Len(history), 3)
    IN  [i \in 1..n |-> history[Len(history) - n + i].emotion]

positiveEmotions == {"happy", "surprised"}

negativeEmotions == {"sad", "angry", "fear", "disgust"}

determineMoodTrend(recent) ==
    LET positiveCount == Cardinality({i \in DOMAIN recent : recent[i] \in positiveEmotions})
        negativeCount == Cardinality({i \in DOMAIN recent : recent[i] \in negativeEmotions})
    IN  IF positiveCount > negativeCount THEN "improving"
        ELSE IF negativeCount > positiveCount THEN "declining"
        ELSE "stable"

\* Object.keys(distribution).reduce((a, b) => (distribution[a] > distribution[b] ? a : b))
RECURSIVE dominantEmotion(_, _, _)
dominantEmotion(keys, distribution, a) ==
    IF keys = << >> THEN a
    ELSE dominantEmotion(Tail(keys), distribution,
                         IF distribution[a] > distribution[Head(keys)] THEN a ELSE Head(keys))

\* the messages pushed, each named by the key it was looked up with
generateRecommendations(keys, distribution, trend) ==
    LET dominant == dominantEmotion(Tail(keys), distribution, Head(keys))
    IN  (IF dominant \in Emotions THEN <<dominant>> ELSE << >>) \o <<trend>>

RECURSIVE totalConfidence(_)
totalConfidence(history) ==
    IF history = << >> THEN 0
    ELSE Head(history).confidence + totalConfidence(Tail(history))

Analytics(total, confidence, distribution, trend, recs) ==
    [totalDetections |-> total, averageConfidence |-> confidence,
     emotionDistribution |-> distribution, moodTrend |-> trend, recommendations |-> recs]

analyzeEmotionHistory(history) ==
    IF Len(history) = 0 THEN Analytics(0, 0, EmptyFn, "neutral", << >>)
    ELSE LET moodTrend == determineMoodTrend(recentEmotions(history))
         IN  Analytics(Len(history), totalConfidence(history), emotionDistribution(history),
                       moodTrend,
                       generateRecommendations(CountedKeys(history),
                                               emotionDistribution(history), moodTrend))

NoAnalytics ==
    [pc |-> "idle", isArray |-> FALSE, history |-> << >>, status |-> 0,
     body |-> Analytics(0, 0, EmptyFn, "", << >>)]

\* POST /api/emotion-analytics with {history}: 400 unless history is an array
AnalyticsPOST ==
    /\ analytics.pc = "request"
    /\ analytics' =
           IF ~analytics.isArray
           THEN [analytics EXCEPT !.pc = "done", !.status = 400]
           ELSE [analytics EXCEPT !.pc = "done", !.status = 200,
                                  !.body = analyzeEmotionHistory(analytics.history)]
    /\ UNCHANGED <<env, twin, detectVars, recVars, musicVars, captureVars>>

----------------------------------------------------------------------------
(* The aggregator called twice with the same emotion and the same answers *)

Titles(list) == {list[i].title : i \in 1..Len(list)}

\* what is kept of a response: the titles of each list and, when every provider
\* failed, the lists themselves
Summary(response, keepLists) ==
    [titles |-> [movies |-> Titles(response.movies), songs |-> Titles(response.songs),
                 books |-> Titles(response.books)],
     lists |-> IF keepLists THEN <<response.movies, response.songs, response.books>>
               ELSE << >>]

NoSummary == [titles |-> [movies |-> {}, songs |-> {}, books |-> {}], lists |-> << >>]

AllProvidersFail(answers) ==
    /\ answers.movies.out = "failure"
    /\ answers.music.out = "failure"
    /\ answers.books.out = "failure"

\* one POST for a valid emotion from contentRecommender.getRecommendations to the
\* response, with the token the recommender holds: the responses it can give for
\* these answers, and the token it holds afterwards
Aggregate(e, emotion, token, answers) ==
    LET m0 == StartMovies(e, emotion)
        s0 == StartMusic(e, emotion, token)
        b0 == StartBooks(emotion)
        r == getMusicRecommendations(emotion, token, answers.music)
        movies == IF m0.status = "pending"
                  THEN {Promise("fulfilled", l) : l \in getMovieRecommendations(answers.movies)}
                  ELSE {m0}
        music == IF s0.status = "pending"
                 THEN {Promise("fulfilled", l) : l \in r.lists}
                 ELSE {s0}
        books == IF b0.status = "pending"
                 THEN {Promise("fulfilled", l) : l \in getBookRecommendations(answers.books)}
                 ELSE {b0}
    IN  {[token |-> IF s0.status = "pending" THEN r.spotifyToken ELSE token,
          response |-> EnhancedResponse(e, emotion,
                                        getRecommendations([movies |-> m, music |-> s,
                                                            books |-> b]),
                                        TRUE)] :
            m \in movies, s \in music, b \in books}

NoTwin ==
    [pc |-> "idle", emotion |-> "",
     answers |-> [movies |-> [out |-> "failure", raw |-> << >>],
                  music |-> [auth |-> "failure", access_token |-> 0, out |-> "failure",
                             raw |-> << >>],
                  books |-> [out |-> "failure", raw |-> << >>]],
     token |-> 0, first |-> NoSummary, second |-> NoSummary]

\* the aggregator is called: the first time, then once more
TwinCall ==
    /\ twin.pc \in {"start", "once"}
    /\ \E o \in Aggregate(env, twin.emotion, twin.token, twin.answers) :
           LET sm == Summary(o.response, AllProvidersFail(twin.answers))
           IN  twin' = IF twin.pc = "start"
                       THEN [twin EXCEPT !.pc = "once", !.token = o.token, !.first = sm]
                       ELSE [twin EXCEPT !.pc = "twice", !.token = o.token, !.second = sm]
    /\ UNCHANGED <<env, analytics, detectVars, recVars, musicVars, captureVars>>

----------------------------------------------------------------------------
(* The recommend endpoint as a specification *)

OmdbKeyChoices == {"", OmdbPlaceholder, OmdbTemplatePlaceholder, "key"}

SpotifyCredentialChoices == {<<"", "">>, <<"id", "">>, <<"id", "secret">>}

RecEmotions == Emotions \cup PrototypeKeys \cup {"", "bogus"}

RecEnvs ==
    {[FACEPLUS_API_KEY |-> "", FACEPLUS_API_SECRET |-> "",
      AZURE_FACE_API_KEY |-> "", AZURE_FACE_ENDPOINT |-> "", GOOGLE_VISION_API_KEY |-> "",
      OMDB_API_KEY |-> omdb, SPOTIFY_CLIENT_ID |-> sp[1], SPOTIFY_CLIENT_SECRET |-> sp[2]] :
        omdb \in OmdbKeyChoices, sp \in SpotifyCredentialChoices}

DetectIdle ==
    /\ dpc = "idle"
    /\ req = [image |-> [prefix |-> FALSE, payload |-> ""], forceRealDetection |-> FALSE]
    /\ serviceAvailable = FALSE
    /\ calls = << >>
    /\ detectResponse = NoResponse

\* the detector component after its first render
CaptureIdle ==
    /\ mounted = TRUE
    /\ serviceMode = "checking"
    /\ isCameraActive = FALSE
    /\ isDetecting = FALSE
    /\ view = [serviceMode |-> "checking", isCameraActive |-> FALSE, isDetecting |-> FALSE]
    /\ streamRef = 0
    /\ live = {}
    /\ acquired = 0
    /\ pendingCam = 0
    /\ inFlight = 0
    /\ lastClick = "none"
    /\ currentEmotion = "none"
    /\ recommendationsShown = "none"
    /\ isLoadingRecommendations = FALSE
    /\ recLog = << >>

RecIdle ==
    /\ rpc = "idle"
    /\ recEmotion = ""
    /\ rec = IdlePromises
    /\ fetchLog = NoFetches
    /\ recResponse = NoRecResponse
    /\ catalogLog = << >>

NoCachedToken == [access_token |-> 0, expires_at |-> 0]

IdleCall == [kind |-> "none", fetches |-> 0, auths |-> 0, now |-> 0, bearer |-> 0]

NoRequest == [by |-> "none", token |-> 0, at |-> 0, live |-> FALSE]

NoTracks == [by |-> "none", list |-> << >>]

MusicIdle ==
    /\ spotifyToken = 0
    /\ isAvailable = TRUE
    /\ accessToken = 0
    /\ lastCheck = 0
    /\ cpc = "idle"
    /\ call = IdleCall
    /\ cachedToken = NoCachedToken
    /\ now = 0
    /\ tokenExpiry = << >>
    /\ authLog = << >>
    /\ lastRequest = NoRequest
    /\ tracks = NoTracks

InitRecommend ==
    /\ env \in RecEnvs
    /\ DetectIdle
    /\ RecIdle
    /\ MusicIdle
    /\ CaptureIdle
    /\ twin = NoTwin
    /\ analytics = NoAnalytics

NextRecommend ==
    \/ \E emotion \in RecEmotions : RecommendPOST(emotion)
    \/ RecommendPOSTMalformed
    \/ \E answer \in SearchAnswers(MaxMovieHits) : MovieResponse(answer)
    \/ \E answer \in MusicAnswers(spotifyToken, 1, MaxSongHits) : MusicResponse(answer)
    \/ \E answer \in SearchAnswers(MaxBookHits) : BookResponse(answer)

SpecRecommend == InitRecommend /\ [][NextRecommend]_vars

InitTwice ==
    /\ env \in RecEnvs
    /\ DetectIdle
    /\ RecIdle
    /\ MusicIdle
    /\ CaptureIdle
    /\ analytics = NoAnalytics
    /\ twin \in {[NoTwin EXCEPT !.pc = "start", !.emotion = emotion,
                                !.answers = [movies |-> m, music |-> s, books |-> b]] :
                     emotion \in Emotions,
                     m \in SearchAnswers(MaxTwinHits),
                     s \in MusicAnswers(0, 1, MaxSongHits),
                     b \in SearchAnswers(MaxTwinHits)}

NextTwice == TwinCall

SpecTwice == InitTwice /\ [][NextTwice]_vars

InitAnalytics ==
    /\ env \in {e \in RecEnvs : e.OMDB_API_KEY = "" /\ ~SpotifyCredentials(e)}
    /\ DetectIdle
    /\ RecIdle
    /\ MusicIdle
    /\ CaptureIdle
    /\ twin = NoTwin
    /\ analytics \in {[NoAnalytics EXCEPT !.pc = "request", !.isArray = TRUE, !.history = h] :
                          h \in Histories(MaxHistory)}
                     \cup {[NoAnalytics EXCEPT !.pc = "request"]}

NextAnalytics == AnalyticsPOST

SpecAnalytics == InitAnalytics /\ [][NextAnalytics]_vars

----------------------------------------------------------------------------
(* The detect endpoint as a specification *)

\* FACEPLUS_API_KEY || NEXT_PUBLIC_FACEPLUS_API_KEY, and the secret likewise
FacePlusCredentialChoices ==
    {<<"", "">>, <<"key", "">>, <<FacePlusKeyPlaceholder, FacePlusSecretPlaceholder>>,
     <<"key", FacePlusSecretPlaceholder>>, <<"key", "secret">>}

AzureCredentialChoices == {<<"", "">>, <<"key", "">>, <<"key", "endpoint">>}

DetectEnvs ==
    {[FACEPLUS_API_KEY |-> fp[1], FACEPLUS_API_SECRET |-> fp[2],
      AZURE_FACE_API_KEY |-> az[1], AZURE_FACE_ENDPOINT |-> az[2],
      GOOGLE_VISION_API_KEY |-> g,
      OMDB_API_KEY |-> "", SPOTIFY_CLIENT_ID |-> "", SPOTIFY_CLIENT_SECRET |-> ""] :
        fp \in FacePlusCredentialChoices, az \in AzureCredentialChoices, g \in {"", "key"}}

InitDetect ==
    /\ env \in DetectEnvs
    /\ DetectIdle
    /\ RecIdle
    /\ MusicIdle
    /\ CaptureIdle
    /\ twin = NoTwin
    /\ analytics = NoAnalytics

NextDetect ==
    \/ \E body \in Bodies : DetectPOST(body)
    \/ DetectPOSTMalformed
    \/ \E out \in {"ok", "http_error", "neterr"} : HealthResponse(out)
    \/ \E answer \in DeepFaceAnswers : DeepFaceResponse(answer)
    \/ \E answer \in CloudAnswers(FacePlusSamples) : FacePlusDirectResponse(answer)
    \/ \E answer \in CloudAnswers(FacePlusSamples) : AiFacePlusResponse(answer)
    \/ \E answer \in CloudAnswers(AzureSamples) : AzureResponse(answer)
    \/ \E answer \in CloudAnswers(GoogleSamples) : GoogleResponse(answer)

SpecDetect == InitDetect /\ [][NextDetect]_vars

----------------------------------------------------------------------------
(* Properties of the detect endpoint *)

DetectDone == dpc = "done" /\ ~ImageMissing(req.image)

\* every real provider that was contacted in this request was unreachable
NoRealProviderAnswered ==
    \A i \in DOMAIN calls : calls[i].p \in RealProviders => calls[i].out = "failure"

SimulatorInvoked == \E i \in DOMAIN calls : calls[i].p = "simulator"

ErrorResponse == detectResponse.status >= 400 /\ ~detectResponse.success

\* a distribution over exactly the seven labels, non-negative, summing to 1
ValidDistribution(r) ==
    /\ DOMAIN r.all_emotions = Emotions
    /\ r.den > 0
    /\ \A e \in Emotions : r.all_emotions[e] >= 0
    /\ SumFn(r.all_emotions) = r.den

\* C1: a detect request with an image and forceRealDetection = true, in which no real
\* provider could be reached or was configured, is answered with an error and never
\* with a simulated result.
C1_RequireRealGivesError ==
    (DetectDone /\ req.forceRealDetection /\ NoRealProviderAnswered)
        => (ErrorResponse /\ detectResponse.service_mode # "simulation" /\ ~SimulatorInvoked)

C1_Witness ==
    /\ DetectDone /\ req.forceRealDetection /\ NoRealProviderAnswered
    /\ Len(calls) = 2 /\ calls[2].p = "faceplus"
    /\ detectResponse.status = 400 /\ detectResponse.service_mode = "faceplus_error"

\* C2: a detect request with an image and forceRealDetection = false, in which no real
\* provider could be reached or was configured, is answered with a successful simulated
\* result: tagged as simulation, with a non-negative seven-label distribution that sums to 1.
C2_NoRealGivesSimulation ==
    (DetectDone /\ ~req.forceRealDetection /\ NoRealProviderAnswered)
        => /\ detectResponse.status = 200 /\ detectResponse.success
           /\ detectResponse.service_mode = "simulation"
           /\ detectResponse.service_used = "enhanced_simulation"
           /\ detectResponse.emotion \in Emotions
           /\ ValidDistribution(detectResponse)

C2_Witness ==
    /\ DetectDone /\ ~req.forceRealDetection /\ NoRealProviderAnswered
    /\ Len(calls) >= 4 /\ SimulatorInvoked
    /\ detectResponse.service_mode = "simulation"
    /\ detectResponse.emotion = "sad"

\* whether the process has the provider's credentials (the local service always has a URL)
Configured(p) ==
    CASE p = "deepface" -> TRUE
      [] p = "faceplus" -> hasFacePlusCredentials(env)
      [] p = "azure" -> env.AZURE_FACE_API_KEY # "" /\ env.AZURE_FACE_ENDPOINT # ""
      [] p = "google" -> env.GOOGLE_VISION_API_KEY # ""

Attempted(p) == \E i \in DOMAIN calls : calls[i].p = p

\* C3: with forceRealDetection = true the endpoint answers with an error only after
\* every configured real provider (local service, Face++, Azure, Google) was tried.
C3_ErrorOnlyAfterAllRealProviders ==
    (DetectDone /\ req.forceRealDetection /\ ErrorResponse)
        => \A p \in RealProviders : Configured(p) => Attempted(p)

\* C9: providers are invoked in priority order, and a provider is invoked only when the
\* outcome of every provider invoked before it is known.
C9_PriorityOrder ==
    \A i, j \in DOMAIN calls :
        i < j => /\ Priority[calls[i].p] <= Priority[calls[j].p]
                 /\ calls[i].out # "pending"

C9_Witness ==
    /\ dpc = "done" /\ Len(calls) = 6
    /\ calls[3].p = "faceplus" /\ calls[4].p = "azure" /\ calls[5].p = "google"
    /\ calls[6].p = "simulator"

\* the provider a response is attributed to
ProviderOfResponse ==
    CASE detectResponse.service_mode = "deepface_ai" -> "deepface"
      [] detectResponse.service_mode = "faceplus_direct" -> "faceplus"
      [] detectResponse.service_mode = "cloud_ai" -> detectResponse.service_used
      [] detectResponse.service_mode = "simulation" -> "simulator"
      [] OTHER -> "none"

\* C10: once a provider has returned a successful result, nothing else is invoked in the
\* request and the response is that provider's result.
C10_ShortCircuit ==
    \A i \in DOMAIN calls :
        calls[i].out = "success"
            => /\ i = Len(calls)
               /\ dpc = "done"
               /\ detectResponse.status = 200
               /\ ProviderOfResponse = calls[i].p
               /\ detectResponse.emotion = calls[i].emotion

C10_Witness ==
    /\ dpc = "done" /\ Len(calls) = 4
    /\ calls[4].p = "azure" /\ calls[4].out = "success"
    /\ detectResponse.service_used = "azure" /\ ~detectResponse.face_detected

CloudProviders == {"faceplus", "azure", "google"}

\* C11: when a cloud provider answers successfully but reports no face, the request ends
\* there: the response is a successful result with face_detected = false, dominant
\* emotion "neutral" and the fixed default distribution, and no further provider is called.
C11_NoFaceIsSuccess ==
    \A i \in DOMAIN calls :
        (calls[i].p \in CloudProviders /\ calls[i].report = "noface")
            => /\ i = Len(calls)
               /\ dpc = "done"
               /\ detectResponse.status = 200 /\ detectResponse.success
               /\ ~detectResponse.face_detected
               /\ detectResponse.emotion = "neutral"
               /\ detectResponse.all_emotions = DefaultDistribution
               /\ detectResponse.den = 100
               /\ ProviderOfResponse = calls[i].p

C11_Witness ==
    /\ dpc = "done" /\ Len(calls) = 5
    /\ calls[5].p = "google" /\ calls[5].report = "noface"
    /\ calls[4].p = "azure" /\ calls[4].out = "failure"
    /\ detectResponse.service_used = "google" /\ ~detectResponse.face_detected

\* the request ended with a successful result of a cloud provider or of the simulator
ChainResult ==
    /\ dpc = "done" /\ detectResponse.status = 200 /\ detectResponse.success
    /\ ProviderOfResponse \in CloudProviders \cup {"simulator"}

\* C12: every successful result of a cloud provider or of the simulator names its dominant
\* emotion, and keys its distribution, with the seven canonical labels only.
C12_CanonicalLabels ==
    ChainResult => /\ detectResponse.emotion \in Emotions
                   /\ DOMAIN detectResponse.all_emotions \subseteq Emotions

\* C13: every distribution the chain returns (Face++, Azure, Google, the no-face default,
\* the simulator) sums to 1.
C13_DistributionSumsToOne ==
    ChainResult => SumFn(detectResponse.all_emotions) = detectResponse.den

\* C14: the dominant emotion of a result is a label of its distribution whose value is the
\* maximum of the distribution.
C14_DominantIsArgmax ==
    ChainResult
        => /\ detectResponse.emotion \in DOMAIN detectResponse.all_emotions
           /\ \A e \in DOMAIN detectResponse.all_emotions :
                  detectResponse.all_emotions[e]
                      <= detectResponse.all_emotions[detectResponse.emotion]

C14_Witness ==
    /\ ChainResult /\ ProviderOfResponse = "google" /\ detectResponse.face_detected
    /\ detectResponse.emotion = "surprised"
    /\ detectResponse.all_emotions["surprised"] = 90
    /\ detectResponse.all_emotions["happy"] = 40

\* C18: no request is sent to Face++ while its key is the template placeholder
\* "your_faceplus_api_key_here".
C18_NoPlaceholderCall ==
    env.FACEPLUS_API_KEY = FacePlusKeyPlaceholder => ~Attempted("faceplus")

\* C21: a detect request with an image and forceRealDetection = false is always answered
\* with a successful result, whatever the providers did.
C21_FailuresAbsorbed ==
    (DetectDone /\ ~req.forceRealDetection)
        => (detectResponse.status = 200 /\ detectResponse.success)

\* C27: in every successful result the confidence is the value the distribution gives
\* the dominant emotion, the no-face default included.
C27_ConfidenceIsDominantValue ==
    (ChainResult /\ detectResponse.emotion \in DOMAIN detectResponse.all_emotions)
        => detectResponse.confidence = detectResponse.all_emotions[detectResponse.emotion]

\* C26: within one detect request each external provider is invoked at most once; in
\* particular Face++ is not called again after its first call failed.
\* (the health probe of the local service, calls[1], is not counted as a detection call)
C26_EachProviderOnce ==
    \A i, j \in DOMAIN calls \ {1} :
        (calls[i].p \in RealProviders /\ calls[i].p = calls[j].p) => i = j

----------------------------------------------------------------------------
(* Properties of the recommend endpoint *)

RecommendDone == rpc = "done" /\ recResponse.status # 0

\* no request this recommendation sent was answered: each content kind was
\* either not asked for want of a credential or failed on every request
AllFetchesFailed == \A k \in Kinds : fetchLog[k] \in {"skipped", "failure"}

\* C4: for each of the seven emotions, when every outbound request fails and
\* no credential is configured, the recommend endpoint answers 200 with
\* non-empty movies, songs and books
C4_FallbackNonEmpty ==
    (RecommendDone /\ recEmotion \in Emotions /\ AllFetchesFailed)
        => /\ recResponse.status = 200
           /\ Len(recResponse.movies) > 0
           /\ Len(recResponse.songs) > 0
           /\ Len(recResponse.books) > 0

C4_Witness ==
    /\ RecommendDone /\ recEmotion = "fear"
    /\ env.OMDB_API_KEY = "" /\ ~SpotifyCredentials(env)
    /\ fetchLog = [movies |-> "skipped", music |-> "skipped", books |-> "failure"]
    /\ recResponse.status = 200
    /\ Len(recResponse.movies) = 3 /\ Len(recResponse.songs) = 3 /\ Len(recResponse.books) = 3

\* C5: for "happy" with every content provider failing the response carries
\* exactly the fixed lists: three movies led by "The Grand Budapest Hotel",
\* the songs led by "Happy - Pharrell Williams" and the books led by
\* "The Seven Husbands of Evelyn Hugo"
C5_HappyFallbackLists ==
    (RecommendDone /\ recEmotion = "happy" /\ AllFetchesFailed)
        => /\ recResponse.movies = getFallbackMovies("happy")
           /\ Len(recResponse.movies) = 3
           /\ recResponse.movies[1].title = "The Grand Budapest Hotel"
           /\ recResponse.songs = getFallbackSongs("happy")
           /\ recResponse.songs[1].title = "Happy - Pharrell Williams"
           /\ recResponse.books = getGoodreadsStyleBooks("happy")
           /\ recResponse.books[1].title = "The Seven Husbands of Evelyn Hugo"

C5_Witness ==
    /\ RecommendDone /\ recEmotion = "happy"
    /\ fetchLog = [movies |-> "failure", music |-> "failure", books |-> "failure"]
    /\ recResponse.enhanced_backend
    /\ recResponse.books[1].title = "The Seven Husbands of Evelyn Hugo"

\* what the provider of a content kind delivered to this request
Delivered(k) == IF rec[k].status = "fulfilled" THEN rec[k].value ELSE << >>

\* a detect request without an image is answered 400 and no provider is called
MissingImageRejected ==
    (dpc = "done" /\ ImageMissing(req.image) /\ detectResponse.status # 500)
        => (detectResponse.status = 400 /\ calls = << >>)

\* C15: a recommend request that names an emotion outside the seven labels is answered
\* with a 4xx status and no content request is sent for it.
C15_InvalidEmotionRejected ==
    (RecommendDone /\ recEmotion # "" /\ recEmotion \notin Emotions)
        => /\ recResponse.status \in 400..499
           /\ \A k \in Kinds : fetchLog[k] \in {"none", "skipped"}

\* no search is sent to the movie provider while its key is "your_omdb_api_key_here"
OmdbPlaceholderNotCalled ==
    env.OMDB_API_KEY = OmdbTemplatePlaceholder => fetchLog.movies \in {"none", "skipped"}

\* C22: when the songs of a recommend response are the music provider's, the first catalog
\* request sent for that response was the recommendations-by-genre-seed call.
C22_RecommendationsFirst ==
    (RecommendDone /\ recEmotion \in Emotions /\ Delivered("music") # << >>)
        => (catalogLog # << >> /\ catalogLog[1] = "recommendations")

\* the static song list replaces the provider's only when the provider delivered nothing
StaticSongsOnlyWhenEmpty ==
    (RecommendDone /\ recEmotion \in Emotions /\ recResponse.songs = getFallbackSongs(recEmotion))
        => Delivered("music") = << >>

\* the candidate pool of a content kind: the titles its provider answered with when it
\* was asked and answered with any, else the titles of the kind's static list
MoviePool ==
    IF MovieKeyUsable(env.OMDB_API_KEY) /\ twin.answers.movies.raw # << >>
    THEN {MovieItem(twin.answers.movies.raw[i]).title : i \in DOMAIN twin.answers.movies.raw}
    ELSE Titles(getFallbackMovies(twin.emotion))

SongPool ==
    IF SpotifyCredentials(env) /\ twin.answers.music.auth = "ok"
       /\ twin.answers.music.raw # << >>
    THEN {SongItem(twin.answers.music.raw[i]).title : i \in DOMAIN twin.answers.music.raw}
    ELSE Titles(getFallbackSongs(twin.emotion))

BookPool ==
    IF twin.answers.books.raw # << >>
    THEN {BookItem(twin.answers.books.raw[i]).title : i \in DOMAIN twin.answers.books.raw}
    ELSE Titles(getGoodreadsStyleBooks(twin.emotion))

\* C24: two calls of the aggregator with the same emotion and the same provider answers
\* give lists drawn from the same candidate pool, and identical lists when every
\* provider fails.
C24_SamePool ==
    twin.pc = "twice"
        => /\ \A c \in {twin.first, twin.second} :
                  /\ c.titles.movies # {} /\ c.titles.movies \subseteq MoviePool
                  /\ c.titles.songs # {} /\ c.titles.songs \subseteq SongPool
                  /\ c.titles.books # {} /\ c.titles.books \subseteq BookPool
           /\ AllProvidersFail(twin.answers) => twin.first.lists = twin.second.lists

C24_Witness ==
    /\ twin.pc = "twice" /\ twin.emotion = "angry" /\ AllProvidersFail(twin.answers)
    /\ twin.first.lists = twin.second.lists
    /\ twin.second.lists[1][1].title = "The Karate Kid"
    /\ twin.second.lists[2][3].title = "Stronger - Kelly Clarkson"

\* C16: each of the three lists of every recommend response has at most 3 items, whether
\* the content is live or fallback.
C16_AtMostThree ==
    RecommendDone => /\ Len(recResponse.movies) <= 3
                     /\ Len(recResponse.songs) <= 3
                     /\ Len(recResponse.books) <= 3

\* C17: the content kinds are independent.  In a response to a valid emotion, a kind
\* whose provider failed or delivered nothing carries that kind's own fallback list and
\* every other kind carries what its provider delivered; no kind is left unsettled
\* because another one failed.
C17_KindsIndependent ==
    (RecommendDone /\ recEmotion \in Emotions)
        => /\ \A k \in Kinds : rec[k].status \in {"fulfilled", "rejected"}
                                /\ fetchLog[k] # "none"
           /\ recResponse.movies = IF Delivered("movies") # << >>
                                    THEN transformedMovies(Delivered("movies"))
                                    ELSE getFallbackMovies(recEmotion)
           /\ recResponse.songs = IF Delivered("music") # << >>
                                   THEN transformedSongs(Delivered("music"))
                                   ELSE getFallbackSongs(recEmotion)
           /\ recResponse.books = IF Delivered("books") # << >>
                                   THEN transformedBooks(Delivered("books"))
                                   ELSE getGoodreadsStyleBooks(recEmotion)

C17_Witness ==
    /\ RecommendDone /\ recEmotion = "sad"
    /\ fetchLog.movies = "failure" /\ Delivered("movies") = << >>
    /\ Len(Delivered("books")) = 2 /\ Len(recResponse.books) = 2
    /\ recResponse.movies = getFallbackMovies("sad")

----------------------------------------------------------------------------
(* The music provider, the spotify-auth route and SpotifyClient *)

\* `(data.expires_in - 300) * 1000`: the route refreshes 300 seconds early
RefreshEarly == 300

\* `now - this.lastCheck < 60000`: the cooldown in seconds
Cooldown == 60

\* the provider accepts a token until the end of its lifetime
LiveIn(expiry, token) == token \in DOMAIN expiry /\ now < expiry[token]

Live(token) == LiveIn(tokenExpiry, token)

Request(by, token, expiry) ==
    [by |-> by, token |-> token, at |-> now, live |-> LiveIn(expiry, token)]

AuthEntry(by, token) == [by |-> by, at |-> now, token |-> token]

\* the provider issues a token: access_token is its number, expires_in its lifetime
Issue(expiry) == Append(expiry, now + TokenLifetime)

\* POST /api/spotify-auth; provider is the outcome of the token request, "none"
\* when the route sends none
RouteCallsProvider(e, cached, t) ==
    ~(cached.access_token # 0 /\ cached.expires_at > t) /\ SpotifyCredentials(e)

RouteResponse(ok, access_token, fallback) ==
    [ok |-> ok, access_token |-> access_token, fallback |-> fallback]

spotifyAuthExpiresAtFullLifetime(t, expires_in) == t + expires_in

\* expires_at: Date.now() + (data.expires_in - 300) * 1000, in seconds
spotifyAuthExpiresAt(t, expires_in) == t + (expires_in - RefreshEarly)

spotifyAuthPOST(e, cached, t, provider, access_token) ==
    IF cached.access_token # 0 /\ cached.expires_at > t
    THEN [response |-> RouteResponse(TRUE, cached.access_token, FALSE), cachedToken |-> cached]
    ELSE IF ~SpotifyCredentials(e)
    THEN [response |-> RouteResponse(FALSE, 0, TRUE), cachedToken |-> cached]
    ELSE IF provider = "ok"
    THEN [response |-> RouteResponse(TRUE, access_token, FALSE),
          cachedToken |-> [access_token |-> access_token,
                           expires_at |-> spotifyAuthExpiresAt(t, TokenLifetime)]]
    ELSE [response |-> RouteResponse(FALSE, 0, TRUE), cachedToken |-> cached]

\* the fields of SpotifyClient and of its call in progress
Client ==
    [cpc |-> cpc, call |-> call, accessToken |-> accessToken, isAvailable |-> isAvailable,
     lastCheck |-> lastCheck, tracks |-> tracks, lastRequest |-> lastRequest]

\* searchTracks / getRecommendations return
ReturnTracks(st, list) ==
    [st EXCEPT !.cpc = "idle", !.call = IdleCall, !.tracks = [by |-> "client", list |-> list]]

\* the catalog request with `Authorization: Bearer ${token}`
SendCatalog(st, token, expiry) ==
    [st EXCEPT !.cpc = "fetch", !.call.bearer = token, !.call.fetches = @ + 1,
               !.lastRequest = Request("client", token, expiry)]

\* getAccessToken up to its request, and the caller's use of what it returns
\* or throws
getAccessToken(st) ==
    IF st.accessToken # 0 /\ st.isAvailable THEN SendCatalog(st, st.accessToken, tokenExpiry)
    ELSE IF ~st.isAvailable /\ now - st.lastCheck < Cooldown THEN ReturnTracks(st, << >>)
    ELSE [st EXCEPT !.cpc = "auth", !.call.now = now, !.call.auths = @ + 1]

\* getAccessToken from the answer of /api/spotify-auth on
AuthAnswered(st, net, response, expiry) ==
    IF net = "ok" /\ ~response.fallback /\ response.ok /\ response.access_token # 0
    THEN SendCatalog([st EXCEPT !.accessToken = response.access_token,
                                !.isAvailable = TRUE, !.lastCheck = st.call.now],
                     response.access_token, expiry)
    ELSE ReturnTracks([st EXCEPT !.isAvailable = FALSE, !.lastCheck = st.call.now], << >>)

\* on 401: `this.accessToken = null; return this.searchTracks(query, limit)`
Retry(st) == getAccessToken([st EXCEPT !.accessToken = 0])

\* searchTracks / getRecommendations from the answer of the catalog on
CatalogAnswered(st, answer) ==
    IF answer.out = "ok" THEN ReturnTracks(st, answer.raw)
    ELSE IF answer.out = "401" THEN Retry(st)
    ELSE ReturnTracks(st, << >>)

CommitClient(st) ==
    /\ st.call.fetches <= MaxFetches
    /\ cpc' = st.cpc
    /\ call' = st.call
    /\ accessToken' = st.accessToken
    /\ isAvailable' = st.isAvailable
    /\ lastCheck' = st.lastCheck
    /\ tracks' = st.tracks
    /\ lastRequest' = st.lastRequest

ClientCalls == {"searchTracks", "getRecommendations"}

\* spotifyClient.searchTracks(...) or spotifyClient.getRecommendations(...)
ClientCall(kind) ==
    /\ cpc = "idle"
    /\ CommitClient(getAccessToken([Client EXCEPT !.call = [IdleCall EXCEPT !.kind = kind]]))
    /\ UNCHANGED <<env, twin, analytics, captureVars, detectVars, recVars, spotifyToken, cachedToken, now, tokenExpiry, authLog>>

\* isSpotifyAvailable()
isSpotifyAvailable(st) == st.isAvailable

\* fetchSpotifySongs(emotion) for one of the seven emotions, up to its first request:
\* the static list when the client is marked unavailable, else
\* spotifyClient.getRecommendations(config.genres, 5)
fetchSpotifySongsCall ==
    /\ cpc = "idle"
    /\ IF ~isSpotifyAvailable(Client)
       THEN /\ tracks' = [by |-> "fallback", list |-> << >>]
            /\ UNCHANGED <<env, twin, analytics, captureVars, detectVars, recVars, spotifyToken,
                           clientVars, cachedToken, now, tokenExpiry, authLog, lastRequest>>
       ELSE ClientCall("getRecommendations")

AuthAnswers(e, cached, t, issued, requests) ==
    {[net |-> "neterr", provider |-> "none"]}
    \cup IF RouteCallsProvider(e, cached, t)
         THEN {[net |-> "ok", provider |-> p] :
                   p \in IF requests >= MaxAuthCalls THEN {}
                         ELSE IF issued >= MaxTokens THEN {"failure"}
                         ELSE {"ok", "failure"}}
         ELSE {[net |-> "ok", provider |-> "none"]}

AuthResponse(answer) ==
    /\ cpc = "auth"
    /\ LET r == spotifyAuthPOST(env, cachedToken, now, answer.provider, Len(tokenExpiry) + 1)
           expiry == IF answer.provider = "ok" THEN Issue(tokenExpiry) ELSE tokenExpiry
       IN  IF answer.net = "neterr"
           THEN /\ CommitClient(AuthAnswered(Client, "neterr", RouteResponse(FALSE, 0, FALSE),
                                             tokenExpiry))
                /\ UNCHANGED <<cachedToken, tokenExpiry, authLog>>
           ELSE /\ CommitClient(AuthAnswered(Client, "ok", r.response, expiry))
                /\ cachedToken' = r.cachedToken
                /\ tokenExpiry' = expiry
                /\ authLog' = IF answer.provider = "none" THEN authLog
                              ELSE Append(authLog,
                                          AuthEntry("route", IF answer.provider = "ok"
                                                             THEN Len(tokenExpiry) + 1 ELSE 0))
    /\ UNCHANGED <<env, twin, analytics, captureVars, detectVars, recVars, spotifyToken, now>>

\* the catalog answers 401 to a bearer whose lifetime is over and only to such
CatalogAnswers(token, n) ==
    {[out |-> "error", raw |-> << >>]}
    \cup IF Live(token) THEN {[out |-> "ok", raw |-> r] : r \in RawHits(n)}
         ELSE {[out |-> "401", raw |-> << >>]}

CatalogResponse(answer) ==
    /\ cpc = "fetch"
    /\ CommitClient(CatalogAnswered(Client, answer))
    /\ UNCHANGED <<env, twin, analytics, captureVars, detectVars, recVars, spotifyToken, cachedToken, now, tokenExpiry, authLog>>

\* what the provider can answer to one ContentRecommender.getMusicRecommendations
SongFetchAnswers(emotion) ==
    IF ~MusicNeedsNetwork(env, emotion, spotifyToken)
    THEN {[auth |-> "none", access_token |-> 0, out |-> "failure", raw |-> << >>]}
    ELSE {a \in MusicAnswers(spotifyToken, Len(tokenExpiry) + 1, MaxSongHits) :
             /\ a.auth = "ok" => Len(tokenExpiry) < MaxTokens
             /\ a.auth # "none" => Len(authLog) < MaxAuthCalls
             /\ a.out = "answered" =>
                    LiveIn(IF a.auth = "ok" THEN Issue(tokenExpiry) ELSE tokenExpiry,
                           getMusicRecommendations(emotion, spotifyToken, a).bearer)}

\* contentRecommender.getMusicRecommendations(emotion), from call to return
SongFetch(emotion, answer) ==
    /\ IF ~MusicNeedsNetwork(env, emotion, spotifyToken)
       THEN /\ tracks' = [by |-> "recommender", list |-> << >>]
            /\ UNCHANGED <<spotifyToken, tokenExpiry, authLog, lastRequest>>
       ELSE LET r == getMusicRecommendations(emotion, spotifyToken, answer)
                expiry == IF answer.auth = "ok" THEN Issue(tokenExpiry) ELSE tokenExpiry
            IN  /\ spotifyToken' = r.spotifyToken
                /\ tokenExpiry' = expiry
                /\ authLog' = IF answer.auth = "none" THEN authLog
                              ELSE Append(authLog, AuthEntry("recommender", r.spotifyToken))
                /\ lastRequest' = IF r.bearer # 0 THEN Request("recommender", r.bearer, expiry)
                                  ELSE lastRequest
                /\ \E list \in r.lists : tracks' = [by |-> "recommender", list |-> list]
    /\ UNCHANGED <<env, twin, analytics, captureVars, detectVars, recVars, clientVars, cachedToken, now>>

Tick ==
    /\ now < MaxTicks * TickSeconds
    /\ now' = now + TickSeconds
    /\ UNCHANGED <<env, twin, analytics, captureVars, detectVars, recVars, spotifyToken, clientVars, cachedToken,
                   tokenExpiry, authLog, lastRequest, tracks>>

\* the provider ends the lifetime of a token before the time it stated
Revoke(token) ==
    /\ Live(token)
    /\ tokenExpiry' = [tokenExpiry EXCEPT ![token] = now]
    /\ UNCHANGED <<env, twin, analytics, captureVars, detectVars, recVars, spotifyToken, clientVars, cachedToken,
                   now, authLog, lastRequest, tracks>>

----------------------------------------------------------------------------
(* The song fetches as a specification *)

SongFetchEmotions == {"happy"} \cup PrototypeKeys

SpotifyEnvs == {e \in RecEnvs : e.OMDB_API_KEY = ""}

InitSpotify ==
    /\ env \in SpotifyEnvs
    /\ DetectIdle
    /\ RecIdle
    /\ MusicIdle
    /\ CaptureIdle
    /\ twin = NoTwin
    /\ analytics = NoAnalytics

NextSpotify ==
    \/ \E emotion \in SongFetchEmotions :
           \E answer \in SongFetchAnswers(emotion) : SongFetch(emotion, answer)
    \/ \E kind \in ClientCalls : ClientCall(kind)
    \/ fetchSpotifySongsCall
    \/ \E answer \in AuthAnswers(env, cachedToken, now, Len(tokenExpiry), Len(authLog)) :
           AuthResponse(answer)
    \/ \E answer \in CatalogAnswers(call.bearer, MaxSongHits) : CatalogResponse(answer)
    \/ Tick
    \/ \E token \in DOMAIN tokenExpiry : Revoke(token)

SpecSpotify == InitSpotify /\ [][NextSpotify]_vars

----------------------------------------------------------------------------
(* Properties of the song fetches *)

\* C6: a catalog call answered 401 re-authenticates once and retries once,
\* and gives up when the retry is answered 401 too: no call sends more than
\* two catalog requests
C6_OneRetry == call.fetches <= 2

C8_NoExpiredBearer == lastRequest.token # 0 => lastRequest.live

----------------------------------------------------------------------------
(* The detector component: camera and detection triggers *)

\* the state a render closes over: the callbacks and the buttons of that render see it
Rendered(mode, active, detecting) ==
    [serviceMode |-> mode, isCameraActive |-> active, isDetecting |-> detecting]

\* checkServiceStatus is answered: "online" for a 2xx response, else "simulation"
CheckServiceAnswered(mode) ==
    /\ mounted
    /\ serviceMode = "checking"
    /\ serviceMode' = mode
    /\ UNCHANGED <<env, twin, analytics, detectVars, recVars, musicVars, pageVars, mounted, isCameraActive, isDetecting,
                   view, streamRef, live, acquired, pendingCam, inFlight, lastClick>>

\* state set outside an event handler reaches the callbacks with the next render
Render ==
    /\ mounted
    /\ view # Rendered(serviceMode, isCameraActive, isDetecting)
    /\ view' = Rendered(serviceMode, isCameraActive, isDetecting)
    /\ UNCHANGED <<env, twin, analytics, detectVars, recVars, musicVars, pageVars, mounted, serviceMode, isCameraActive,
                   isDetecting, streamRef, live, acquired, pendingCam, inFlight, lastClick>>

\* "Start Camera" is clicked: startCamera up to `await getUserMedia`
StartCameraClick ==
    /\ mounted
    /\ ~view.isCameraActive
    /\ view.serviceMode # "checking"
    /\ acquired + pendingCam < MaxStreams
    /\ pendingCam' = pendingCam + 1
    /\ UNCHANGED <<env, twin, analytics, detectVars, recVars, musicVars, pageVars, mounted, serviceMode, isCameraActive,
                   isDetecting, view, streamRef, live, acquired, inFlight, lastClick>>

\* getUserMedia settles: startCamera from the await to its end
CameraAnswer(out) ==
    /\ pendingCam > 0
    /\ pendingCam' = pendingCam - 1
    /\ IF out = "granted"
       THEN /\ acquired' = acquired + 1
            /\ live' = live \cup {acquired + 1}
            /\ IF mounted   \* videoRef.current is null once the component is gone
               THEN /\ streamRef' = acquired + 1
                    /\ isCameraActive' = TRUE
               ELSE UNCHANGED <<streamRef, isCameraActive>>
       ELSE UNCHANGED <<acquired, live, streamRef, isCameraActive>>
    /\ UNCHANGED <<env, twin, analytics, detectVars, recVars, musicVars, pageVars, mounted, serviceMode, isDetecting,
                   view, inFlight, lastClick>>

\* stopCamera: the tracks of the stream in streamRef are stopped and the ref is cleared
stopCamera ==
    /\ live' = live \ {streamRef}
    /\ streamRef' = 0
    /\ isCameraActive' = FALSE

\* "Stop" is clicked
StopClick ==
    /\ mounted
    /\ view.isCameraActive
    /\ stopCamera
    /\ view' = [view EXCEPT !.isCameraActive = FALSE]
    /\ UNCHANGED <<env, twin, analytics, detectVars, recVars, musicVars, pageVars, mounted, serviceMode, isDetecting,
                   acquired, pendingCam, inFlight, lastClick>>

\* the cleanup of the effect: the component leaves the tree
Unmount ==
    /\ mounted
    /\ mounted' = FALSE
    /\ stopCamera
    /\ UNCHANGED <<env, twin, analytics, detectVars, recVars, musicVars, pageVars, serviceMode, isDetecting, view,
                   acquired, pendingCam, inFlight, lastClick>>

DetectGuardCameraOnly(active, detecting) == active

\* `if (!isCameraActive || isDetecting) return`, negated
DetectGuard(active, detecting) == active /\ ~detecting

\* "Detect Emotion" is clicked: detectEmotion up to `await fetch`; captureFrame gives a
\* frame, or null when the canvas has no context
DetectClick(frame) ==
    /\ mounted
    /\ view.isCameraActive
    /\ IF ~DetectGuard(view.isCameraActive, view.isDetecting)
       THEN /\ lastClick' = "rejected"
            /\ UNCHANGED <<isDetecting, view, inFlight>>
       ELSE IF frame = "null"
       THEN /\ lastClick' = "nocapture"
            /\ isDetecting' = FALSE
            /\ view' = [view EXCEPT !.isDetecting = FALSE]
            /\ UNCHANGED inFlight
       ELSE /\ inFlight < MaxOutstanding
            /\ Len(recLog) + inFlight < MaxRecRequests
            /\ lastClick' = "sent"
            /\ isDetecting' = TRUE
            /\ view' = [view EXCEPT !.isDetecting = TRUE]
            /\ inFlight' = inFlight + 1
    /\ UNCHANGED <<env, twin, analytics, detectVars, recVars, musicVars, pageVars, mounted, serviceMode, isCameraActive,
                   streamRef, live, acquired, pendingCam>>

\* what the detect endpoint may answer to the page: a result with a label, an error
\* response ({success: false, error}, no emotion field), or nothing that parses
DetectionAnswers ==
    {[kind |-> "result", emotion |-> e] : e \in {"happy", "sad"}}
        \cup {[kind |-> "error", emotion |-> "undefined"],
              [kind |-> "throws", emotion |-> "undefined"]}

\* fetchRecommendations up to its await: the request is sent
fetchRecommendations(log, emotion) == Append(log, [emotion |-> emotion, out |-> "pending"])

\* the fetch of detectEmotion settles: the body is handed to onEmotionDetected, which
\* sets currentEmotion and calls fetchRecommendations, unless fetch or json() threw;
\* `finally` clears the flag
DetectAnswer(result) ==
    /\ inFlight > 0
    /\ inFlight' = inFlight - 1
    /\ isDetecting' = FALSE
    /\ IF result.kind = "throws"
       THEN UNCHANGED <<currentEmotion, recLog, isLoadingRecommendations>>
       ELSE /\ currentEmotion' = result.emotion
            /\ recLog' = fetchRecommendations(recLog, result.emotion)
            /\ isLoadingRecommendations' = TRUE
    /\ UNCHANGED <<env, twin, analytics, detectVars, recVars, musicVars, recommendationsShown, mounted, serviceMode,
                   isCameraActive, view, streamRef, live, acquired, pendingCam, lastClick>>

\* JSON.stringify({emotion}): an undefined emotion leaves the body without the field
RequestedEmotion(emotion) == IF emotion = "undefined" THEN "" ELSE emotion

\* the status of the recommend endpoint for the emotion of a request
RecommendStatus(emotion) ==
    IF RequestedEmotion(emotion) = "" \/ ~emotionConfig(RequestedEmotion(emotion))
    THEN 400 ELSE 200

\* a recommendation request settles: fetchRecommendations from its await to its end
RecAnswer(i, net) ==
    /\ i \in DOMAIN recLog
    /\ recLog[i].out = "pending"
    /\ LET ok == net = "answered" /\ RecommendStatus(recLog[i].emotion) = 200
       IN  /\ recLog' = [recLog EXCEPT ![i].out = IF ok THEN "ok" ELSE "failed"]
           /\ recommendationsShown' = IF ok THEN recLog[i].emotion ELSE recommendationsShown
    /\ isLoadingRecommendations' = FALSE
    /\ UNCHANGED <<env, twin, analytics, detectVars, recVars, musicVars, currentEmotion, mounted, serviceMode,
                   isCameraActive, isDetecting, view, streamRef, live, acquired, pendingCam,
                   inFlight, lastClick>>

CaptureEnvs ==
    {[FACEPLUS_API_KEY |-> "", FACEPLUS_API_SECRET |-> "",
      AZURE_FACE_API_KEY |-> "", AZURE_FACE_ENDPOINT |-> "", GOOGLE_VISION_API_KEY |-> "",
      SPOTIFY_CLIENT_ID |-> "", SPOTIFY_CLIENT_SECRET |-> "", OMDB_API_KEY |-> ""]}

InitCapture ==
    /\ env \in CaptureEnvs
    /\ DetectIdle
    /\ RecIdle
    /\ MusicIdle
    /\ CaptureIdle
    /\ twin = NoTwin
    /\ analytics = NoAnalytics

NextCapture ==
    \/ \E mode \in {"online", "simulation"} : CheckServiceAnswered(mode)
    \/ Render
    \/ StartCameraClick
    \/ \E out \in {"granted", "denied"} : CameraAnswer(out)
    \/ StopClick
    \/ Unmount
    \/ \E frame \in {"ok", "null"} : DetectClick(frame)
    \/ \E result \in DetectionAnswers : DetectAnswer(result)
    \/ \E i \in 1..MaxRecRequests, net \in {"answered", "neterr"} : RecAnswer(i, net)

SpecCapture == InitCapture /\ [][NextCapture]_vars

----------------------------------------------------------------------------
(* Properties of the detector component *)

\* C19: at most one detection request is outstanding at any time (a click on the detect
\* control while one is outstanding sends nothing), and the "already detecting" flag is
\* clear whenever no detection is outstanding.
C19_OneDetection ==
    /\ inFlight <= 1
    /\ inFlight = 0 => ~isDetecting

C19_Witness ==
    /\ inFlight = 1 /\ isDetecting /\ lastClick = "rejected"

\* C23: whenever every recommendation request the page sent has been answered with
\* content, the displayed lists are those requested for the displayed emotion, in
\* whatever order the answers arrived.
C23_DisplayedForCurrentEmotion ==
    (recLog # << >> /\ inFlight = 0 /\ \A i \in DOMAIN recLog : recLog[i].out = "ok")
        => recommendationsShown = currentEmotion

\* C25: the page asks for recommendations only with one of the seven labels, and the
\* emotion it displays is one of them: an error response of the detect endpoint changes
\* neither.
C25_ErrorKeepsDisplay ==
    /\ \A i \in DOMAIN recLog : recLog[i].emotion \in Emotions
    /\ currentEmotion \in Emotions \cup {"none"}

\* C20: every camera stream handed to startCamera is released by stopCamera: once the
\* component is gone and no permission request is pending, no stream has live tracks.
C20_StreamsReleased ==
    (~mounted /\ pendingCam = 0) => live = {}

----------------------------------------------------------------------------
(* Properties of SpotifyClient and of the spotify-auth route *)

\* a song fetch of the client begins: a step from the idle client that sends a request
\* or returns a list
ClientFetchBegins ==
    /\ cpc = "idle"
    /\ UNCHANGED <<now, tokenExpiry>>
    /\ cpc' # "idle" \/ tracks'.by \in {"client", "fallback"}

\* C28: a failed authentication marks the SpotifyClient unavailable; while fewer than
\* 60 seconds have passed since, a fetch sends no authentication request; once 60
\* seconds have passed, the next song fetch attempts authentication again.
C28_RecoversAfterCooldown ==
    [][/\ (cpc = "auth" /\ cpc' = "idle") => ~isAvailable'
       /\ (ClientFetchBegins /\ ~isAvailable /\ now - lastCheck < Cooldown)
              => (cpc' = "idle" /\ authLog' = authLog)
       /\ (ClientFetchBegins /\ ~isAvailable /\ now - lastCheck >= Cooldown)
              => cpc' = "auth"]_vars

\* the request to /api/spotify-auth is answered, or fails on the way
RouteAnswers == cpc = "auth" /\ cpc' # "auth"

CacheFresh == cachedToken.access_token # 0 /\ now < cachedToken.expires_at

\* C29: the token endpoint answers with the cached token only while the time is strictly
\* before the cached expiry, which is set 300 seconds before the end of the lifetime
\* the provider stated, and then sends no token request; a failed token request leaves
\* the cache as it was and is answered with an error, not with the cached token.
C29_CacheOnlyWhileFresh ==
    [][RouteAnswers =>
          /\ (authLog' = authLog /\ isAvailable')
                 => (CacheFresh /\ accessToken' = cachedToken.access_token
                     /\ cachedToken' = cachedToken)
          /\ CacheFresh => authLog' = authLog
          /\ authLog' # authLog
                 => LET entry == authLog'[Len(authLog')]
                    IN  IF entry.token # 0
                        THEN /\ cachedToken' = [access_token |-> entry.token,
                                                expires_at |-> now + TokenLifetime - RefreshEarly]
                             /\ accessToken' = entry.token
                        ELSE /\ cachedToken' = cachedToken
                             /\ ~isAvailable' /\ accessToken' = accessToken]_vars

C29_Witness ==
    /\ Len(authLog) = 2 /\ cpc = "idle" /\ ~isAvailable
    /\ authLog[1].by = "route" /\ authLog[1].token # 0
    /\ authLog[2].by = "route" /\ authLog[2].token = 0
    /\ cachedToken.access_token = authLog[1].token
    /\ authLog[2].at >= cachedToken.expires_at

----------------------------------------------------------------------------
(* Properties of the analytics endpoint *)

\* the trend the last three entries of a history call for
TrendOfLastThree(history) ==
    LET last == {i \in DOMAIN history : i > Len(history) - 3}
        up == Cardinality({i \in last : history[i].emotion \in {"happy", "surprised"}})
        down == Cardinality({i \in last :
                                history[i].emotion \in {"sad", "angry", "fear", "disgust"}})
    IN  IF up > down THEN "improving" ELSE IF down > up THEN "declining" ELSE "stable"

====
